---- MODULE Spec2Model ----
(***************************************************************************)
(* Verification model of nimble's differential sync engine:                *)
(*   - sync_with_context (src/src/commands/sync.rs) with quick_diff and    *)
(*     diff_mod (src/src/commands/diff.rs) and ModCache                    *)
(*     (src/src/mod_cache.rs), over an abstract file system;               *)
(*   - the parallel downloader execute_command_list                        *)
(*     (src/src/commands/download.rs).                                     *)
(* Specification Spec runs sync_with_context against a fixed remote        *)
(* repository, again and again after each successful sync.  Specification  *)
(* SpecDl runs the parallel downloader on a task list.  Specification      *)
(* SpecDiff calls diff_mod or quick_diff once on one mod, over manifests   *)
(* and directories whose paths may differ in case only.  SpecRepo calls    *)
(* diff_repo once.  SpecDamaged runs sync_with_context over local files    *)
(* that may be unreadable.  SpecCache drives a ModCache and its file       *)
(* nimble-cache.json (src/src/mod_cache.rs, with the loads of launch and   *)
(* of the GUI).  SpecMain runs the command-line program                    *)
(* (src/src/main.rs).  SpecProbe runs the partial probe of a remote        *)
(* mod.srf at the level of bytes.                                          *)
(* SpecUrl calls make_repo_file_url, SpecProton the conversion of a host   *)
(* path to a Proton path, SpecJson the serialization of a Repository and   *)
(* its parse, and SpecPaths builds the paths at which the files a manifest *)
(* names are written and removed.  SpecGui runs the GUI with the sync and  *)
(* launch threads it spawns (src/src/gui).                                 *)
(***************************************************************************)
EXTENDS Integers, Sequences, FiniteSets, TLC

\* ---------------------------------------------------------------- bounds
\* File contents are 1..MaxContent; 0 stands for "no such file".
MaxContent == 2
\* Largest task list handed to the parallel downloader.
MaxTasks == 2
\* Longest required_mods and optional_mods list handed to diff_repo, and the
\* digests its mods and the cache keys are drawn from (1..MaxDigest).
MaxRepoMods == 2
MaxDigest == 2
\* Longest mod name, in bytes, and most Files entries of a probed manifest.
MaxNameLen == 255
MaxProbeFiles == 1
\* Longest base URL and longest path handed to make_repo_file_url.
MaxUrlLen == 3
\* Most components of a host base path and of a path of a manifest.
MaxPathLen == 4
\* Most servers of a repo.json.
MaxServers == 1
\* Most sync threads the GUI spawns.
MaxSyncThreads == 2
\* Most SyncProgress messages one sync sends.
MaxProgress == 1

\* ------------------------------------------------------- model universe
\* repo.json's required_mods, in order.
required_mods == <<"@a", "@b">>
ModNames == {required_mods[k] : k \in 1..Len(required_mods)}
\* Relative file paths a manifest may list, per mod.
PathsOf(m) == IF m = "@a" THEN {"x", "y"} ELSE {"x"}
Paths == UNION {PathsOf(m) : m \in ModNames}
Contents == 1..MaxContent
NoFile == 0
NoSrf == [absent |-> TRUE]
\* A mod.srf that exists but cannot be opened, or holds neither a JSON nor a
\* legacy manifest.
CorruptSrf == [corrupt |-> TRUE]
NoCache == [absent |-> TRUE]
\* A nimble-cache.json that exists but cannot be opened (File::open fails
\* with another kind than NotFound), and one that does not decode.
UnreadableCache == [unreadable |-> TRUE]
CorruptCache == [corrupt |-> TRUE]

\* download.rs: const MAX_CONCURRENT_DOWNLOADS: usize = 4
MAX_CONCURRENT_DOWNLOADS == 4
Workers == 1..MAX_CONCURRENT_DOWNLOADS
\* bounded(MAX_CONCURRENT_DOWNLOADS * 2)
WorkChannelCapacity == MAX_CONCURRENT_DOWNLOADS * 2

\* sync.rs download_remote_srf: "Get first 256 bytes" (Range bytes=0-255)
ProbeBytes == 256
\* sync.rs extract_checksum: checksum.len() != 32
DigestHexLen == 32

\* ------------------------------------------------------- pure functions
\* diff.rs normalize_path: backslashes to slashes, then lowercase.
normalize_path(p) ==
    CASE p = "X" -> "x"
      [] p = "Y" -> "y"
      [] OTHER -> p

\* Md5Digest::from_file: the digest of a file's bytes (injective on the
\* abstract contents).
Md5OfFile(c) == <<"md5", c>>

\* The FileEntry list of a directory: one entry per regular file.
EntriesOf(dir) ==
    {[path |-> p, checksum |-> Md5OfFile(dir[p])] : p \in {q \in DOMAIN dir : dir[q] # NoFile}}

\* Aggregate digest of a manifest: a deterministic function of the name and
\* of the (lowercased path, per-file digest) pairs.
AggregateDigest(name, entries) ==
    <<name, {<<normalize_path(e.path), e.checksum>> : e \in entries}>>

\* srf::scan_mod: the manifest of a directory.
scan_mod(name, dir) ==
    [name |-> name,
     checksum |-> AggregateDigest(name, EntriesOf(dir)),
     files |-> EntriesOf(dir)]

\* The all-absent directory of mod m.
EmptyDir(m) == [p \in PathsOf(m) |-> NoFile]

VARIABLES
    \* ---- local file system under <base>
    dirs,            \* dirs[m]: <base>/<m>/ exists
    files,           \* files[m][p]: content of <base>/<m>/<p>, NoFile if absent
    srfFile,         \* srfFile[m]: content of <base>/<m>/mod.srf, NoSrf if absent
    cacheFile,       \* content of <base>/nimble-cache.json, NoCache if absent
    \* ---- remote repository (fixed)
    remoteFiles,     \* remoteFiles[m][p]: content served at <repo>/<m>/<p>
    remoteEncoding,  \* remoteEncoding[m]: "json" or "legacy" encoding of mod.srf
    \* ---- one sync_with_context run
    pc,              \* position in sync_with_context
    dry_run, force_sync,
    cancel,          \* context.cancel
    result,          \* "none", "Ok", "Cancelled", "Err"
    mod_cache,       \* the in-memory ModCache
    partial_srfs,    \* Vec<(mod, srf, partial)>
    idx,             \* loop index of the current loop
    download_commands,
    downloaded_srfs,
    \* ---- history of the run (for stating properties)
    runs,            \* 0 before the first run, 1 from then on
    pre,             \* file system at the start of the run
    events,          \* what the run did so far
    prev,            \* flags and result of the previous run
    \* ---- the parallel downloader (download.rs execute_command_list)
    commands,        \* the task list: tasks are 1..commands
    httpFails,       \* the tasks whose HTTP request fails
    dlCancel,        \* context.cancel of the DownloadContext
    workQ,           \* the bounded task channel (work_tx -> work_rx)
    workTxOpen,      \* main has not yet dropped work_tx
    resultQ,         \* the result channel (result_tx -> result_rx)
    agent_pool,      \* Vec of idle HTTP agents
    wpc,             \* wpc[w]: position of worker w
    wtask,           \* wtask[w]: the command worker w holds (0: none)
    wagent,          \* wagent[w]: the agent worker w holds (0: none)
    wres,            \* wres[w]: the result of the worker's closure
    mpc,             \* position of the main thread
    submitted,       \* commands sent on the task channel so far
    collected,       \* iterations of the result loop done so far
    errors,          \* Vec of collected errors
    dlResult,        \* what execute_command_list returned
    dest,            \* dest[t]: state of the destination file of task t
    readFails,       \* the tasks whose response body fails to read midway
    temp,            \* temp[w]: the worker's temporary file ("none": no file)
    taskResult,      \* taskResult[t]: how task t ended (history)
    \* ---- one call of diff_mod on its own
    diffPc,          \* "call" before, "done" after the call ("none": no call)
    diffOut,         \* the (downloads, deletes) diff_mod returned
    quickOut,        \* the Result quick_diff returned ("none": not called)
    \* ---- one call of diff_repo on its own
    repoPc,          \* "call" before, "done" after the call ("none": no call)
    remote_repo,     \* the Repository: required_mods and optional_mods
    repoCache,       \* the ModCache passed to diff_repo
    repoOut,         \* the Vec of mods diff_repo returned
    \* ---- calls on a ModCache and on nimble-cache.json (cacheFile)
    cacheObj,        \* the ModCache in memory
    lastOp,          \* lastOp[d]: the last insert or remove on digest d (history)
    callOut,         \* the last call, the file it found and what it returned
    \* ---- the command-line program (main.rs)
    mainPc,          \* "start", "run", "exited" ("none": no process)
    command,         \* args.command
    cmdResult,       \* what the command returned
    exit_code,       \* the exit code of the process (-1: still running)
    \* ---- one partial probe of a remote mod.srf
    probePc,         \* "call" before, "done" after the probe ("none": no probe)
    remote_manifest, \* the manifest the remote serves
    rangeHonoured,   \* the server honours the Range header
    probeOut,        \* what download_remote_srf(.., true) returned
    \* ---- one call of a helper function on its own
    fnPc,            \* "call" before, "done" after the call ("none": no call)
    fnArgs,          \* the function called and its arguments, by parameter name
    fnOut,           \* what the function returned
    \* ---- the GUI and the threads it spawns
    gui_state,       \* NimbleGui.state, by the name of the GuiState variant
    channel,         \* the CommandMessages sent and not yet received
    sync_cancel,     \* RepoPanelState.sync_cancel, shared with every sync thread
    syncThreads,     \* per sync thread: where it is, what sync returned, what it sent
    launchPc         \* "running", "done": the launch thread ("none": not spawned)

fsVars == <<dirs, files, srfFile, cacheFile>>
remoteVars == <<remoteFiles, remoteEncoding>>
runVars == <<pc, dry_run, force_sync, cancel, result, mod_cache, partial_srfs,
             idx, download_commands, downloaded_srfs>>
histVars == <<runs, pre, events, prev>>
syncVars == <<fsVars, remoteVars, runVars, histVars>>
dlVars == <<commands, httpFails, dlCancel, workQ, workTxOpen, resultQ, agent_pool,
            wpc, wtask, wagent, wres, mpc, submitted, collected, errors, dlResult, dest,
            readFails, temp, taskResult>>
diffVars == <<diffPc, diffOut, quickOut>>
\* The variables of the specifications that call one function on its own.
repoVars == <<repoPc, remote_repo, repoCache, repoOut>>
cacheVars == <<cacheObj, lastOp, callOut>>
mainVars == <<mainPc, command, cmdResult, exit_code>>
probeVars == <<probePc, remote_manifest, rangeHonoured, probeOut>>
fnVars == <<fnPc, fnArgs, fnOut>>
guiVars == <<gui_state, channel, sync_cancel, syncThreads, launchPc>>
callVars == <<diffVars, repoVars, cacheVars, mainVars, probeVars, fnVars, guiVars>>
\* What a call of one of these leaves alone among the others.
callsButDiff == <<repoVars, cacheVars, mainVars, probeVars, fnVars, guiVars>>
callsButRepo == <<diffVars, cacheVars, mainVars, probeVars, fnVars, guiVars>>
callsButCache == <<diffVars, repoVars, mainVars, probeVars, fnVars, guiVars>>
callsButMain == <<diffVars, repoVars, cacheVars, probeVars, fnVars, guiVars>>
callsButProbe == <<diffVars, repoVars, cacheVars, mainVars, fnVars, guiVars>>
callsButFn == <<diffVars, repoVars, cacheVars, mainVars, probeVars, guiVars>>
callsButGui == <<diffVars, repoVars, cacheVars, mainVars, probeVars, fnVars>>


\* ------------------------------------------------------------ manifests
\* The manifest the remote publishes for mod m (consistent with its files).
RemoteSrf(m) == scan_mod(m, remoteFiles[m])

\* ureq GET of <repo>/<m>/mod.srf, first 256 bytes, then extract_checksum:
\* a JSON manifest starts with '{' and carries "Checksum" first; a legacy
\* manifest does not start with '{' (NoJsonStart).
extract_checksum(m) ==
    IF remoteEncoding[m] = "json"
    THEN [ok |-> TRUE, checksum |-> RemoteSrf(m).checksum]
    ELSE [ok |-> FALSE, checksum |-> <<>>]

\* download_remote_srf(partial = true): the partial manifest (no files) when
\* the checksum is extracted, else the full manifest; the flag says which.
download_remote_srf_partial(m) ==
    IF extract_checksum(m).ok
    THEN [mod |-> m,
          srf |-> [name |-> m, checksum |-> extract_checksum(m).checksum, files |-> {}],
          partial |-> TRUE]
    ELSE [mod |-> m, srf |-> RemoteSrf(m), partial |-> FALSE]

\* ---------------------------------------------------------------- cache
\* ModCache::new_empty
EmptyCache == [mods |-> {}, repository |-> "none", last_sync |-> "none"]

\* ModCache::from_disk: Err(FileOpen) when File::open fails, with the kind
\* of the I/O error; Err(Deserialization) when serde_json fails.
from_disk ==
    IF cacheFile = NoCache THEN [ok |-> FALSE, err |-> "FileOpen:NotFound"]
    ELSE IF cacheFile = UnreadableCache THEN [ok |-> FALSE, err |-> "FileOpen:Other"]
    ELSE IF cacheFile = CorruptCache THEN [ok |-> FALSE, err |-> "Deserialization"]
    ELSE [ok |-> TRUE, cache |-> cacheFile]

\* from_disk_or_empty that maps every failure of from_disk to the empty
\* cache.
from_disk_or_empty_AnyErrorIsEmpty ==
    IF from_disk.ok THEN from_disk ELSE [ok |-> TRUE, cache |-> EmptyCache]

\* ModCache::from_disk_or_empty: only FileOpen with kind NotFound becomes the
\* empty cache.
from_disk_or_empty ==
    IF from_disk.ok THEN from_disk
    ELSE IF from_disk.err = "FileOpen:NotFound" THEN [ok |-> TRUE, cache |-> EmptyCache]
    ELSE from_disk

\* gen_srf: the cache holding (scan digest -> name) of every mod directory.
GenSrfCache(d, f) ==
    [mods |-> {[digest |-> scan_mod(m, f[m]).checksum, name |-> m] :
                  m \in {n \in ModNames : d[n]}},
     repository |-> "none", last_sync |-> "none"]

\* ----------------------------------------------------------------- diff
\* quick_diff that takes an absent mod.srf for an unchanged mod.
quick_diff_AbsentIsUpToDate(m, remote_srf) ==
    IF srfFile[m] = NoSrf THEN "UpToDate"
    ELSE IF srfFile[m] = CorruptSrf THEN "Err"
    ELSE IF srfFile[m].checksum = remote_srf.checksum THEN "UpToDate"
    ELSE "NeedsFull"

\* diff.rs quick_diff: Ok(NeedsFull) without mod.srf; Err when File::open
\* or the decoding fails; else the comparison of the two checksums.
quick_diff(m, remote_srf) ==
    IF srfFile[m] = NoSrf THEN "NeedsFull"
    ELSE IF srfFile[m] = CorruptSrf THEN "Err"
    ELSE IF srfFile[m].checksum = remote_srf.checksum THEN "UpToDate"
    ELSE "NeedsFull"

\* diff_mod, first part: the local mod.srf diff_mod reads, after the forced
\* removal and the generation by scan when it is absent.
LocalSrfForDiff(m, force_scan) ==
    IF force_scan \/ srfFile[m] = NoSrf
    THEN scan_mod(m, files[m])
    ELSE srfFile[m]

\* diff_mod, "If force scan, delete the local SRF file first": whether the
\* old mod.srf is out of the way afterwards.  A removal that fails is only
\* warned about, and the old mod.srf is then read as without force.
SrfRemovals(m, force_scan) ==
    IF force_scan /\ srfFile[m] # NoSrf THEN {TRUE, FALSE} ELSE {force_scan}

\* diff_mod: one remote entry needs a download.
NeedsDownload(m, e, local_srf) ==
    LET loc == {l \in local_srf.files : l.path = e.path}
        onDisk == files[m][normalize_path(e.path)]
    IN  /\ (loc = {} \/ \E l \in loc : l.checksum # e.checksum)
        /\ ~(onDisk # NoFile /\ Md5OfFile(onDisk) = e.checksum)

\* diff_mod without the early return on equal digests and file counts: the
\* file lists are always compared entry by entry.
diff_mod_NoEarlyReturn(m, remote_srf, force_scan) ==
    LET local_srf == LocalSrfForDiff(m, force_scan)
    IN  [downloads |-> {e.path : e \in {r \in remote_srf.files :
                                           NeedsDownload(m, r, local_srf)}},
         deletes |-> {l.path : l \in {k \in local_srf.files :
                          \A r \in remote_srf.files : r.path # k.path}}]

\* diff_mod, second part: the (download, delete) lists, as sets of paths.
diff_mod(m, remote_srf, force_scan) ==
    LET local_srf == LocalSrfForDiff(m, force_scan)
    IN  IF /\ local_srf.checksum = remote_srf.checksum
           /\ Cardinality(local_srf.files) = Cardinality(remote_srf.files)
        THEN [downloads |-> {}, deletes |-> {}]
        ELSE [downloads |-> {e.path : e \in {r \in remote_srf.files :
                                               NeedsDownload(m, r, local_srf)}},
              deletes |-> {l.path : l \in {k \in local_srf.files :
                               \A r \in remote_srf.files : r.path # k.path}}]


\* HashMap::drain yields the entries in an arbitrary order: every ordering
\* of a set of paths as a command list for mod m.
CommandLists(m, S) ==
    {[k \in 1..Cardinality(S) |-> [mod |-> m, path |-> f[k]]] :
        f \in {g \in [1..Cardinality(S) -> S] :
                 \A a, b \in 1..Cardinality(S) : a # b => g[a] # g[b]}}

\* ---------------------------------------------------------------- Init
NoEvents ==
    [probeFull |-> {}, fullFetched |-> {}, diffed |-> {}, upToDate |-> {},
     downloadTasks |-> {}, deleteTasks |-> {},
     deleted |-> {}, downloaded |-> {}, srfSaved |-> {}, quickFailed |-> {},
     cacheWritten |-> FALSE, cacheDeleted |-> FALSE, cancelSet |-> FALSE,
     cacheLoadFailed |-> FALSE, srfSaveFailed |-> FALSE]

\* The directories over the paths of mod m.
DirsOf(m) == [PathsOf(m) -> {NoFile} \cup Contents]

\* The manifests mod.srf of mod m may hold when the directory holds f: the
\* accurate one, and for the mod under study (@a) also none and the stale
\* ones that are wrong about one path (an entry missing, left over, or of
\* other content).  @b is the second required mod, kept accurate.
LocalSrfStates(m, f) ==
    IF m = "@a"
    THEN {NoSrf, scan_mod(m, f)} \cup
         {scan_mod(m, g) : g \in {h \in DirsOf(m) :
                                    Cardinality({p \in PathsOf(m) : h[p] # f[p]}) = 1}}
    ELSE {scan_mod(m, f)}

\* The local states of one mod directory: absent, or present with any files.
LocalModStates(m) ==
    {[dir |-> FALSE, files |-> EmptyDir(m), srf |-> NoSrf]} \cup
    UNION {{[dir |-> TRUE, files |-> f, srf |-> s] : s \in LocalSrfStates(m, f)} :
              f \in DirsOf(m)}

\* What the remote may publish for a mod: its first version of each file,
\* or not the file.
RemoteModStates(m) == [PathsOf(m) -> {NoFile, 1}]

\* How the remote encodes mod.srf: @a's may be in the legacy encoding.
RemoteEncodings == {e \in [ModNames -> {"json", "legacy"}] : e["@b"] = "json"}

IdleRun ==
    /\ pc = "idle"
    /\ dry_run = FALSE /\ force_sync = FALSE
    /\ cancel = FALSE
    /\ result = "none"
    /\ mod_cache = EmptyCache
    /\ partial_srfs = <<>>
    /\ idx = 1
    /\ download_commands = <<>>
    /\ downloaded_srfs = <<>>
    /\ runs = 0
    /\ events = NoEvents
    /\ prev = [result |-> "none", dry_run |-> FALSE, force_sync |-> FALSE]

\* Result<(), Error> of a task or of the batch: Ok(()), Err(Cancelled), or
\* Err(Http{url}) which carries the task's URL.
NoRes == [kind |-> "none", task |-> 0]
OkRes == [kind |-> "Ok", task |-> 0]
CancelledRes == [kind |-> "Cancelled", task |-> 0]
HttpRes(t) == [kind |-> "Http", task |-> t]

\* The parallel downloader is not running.
IdleDl ==
    /\ commands = 0
    /\ httpFails = {}
    /\ dlCancel = FALSE
    /\ workQ = <<>>
    /\ workTxOpen = FALSE
    /\ resultQ = <<>>
    /\ agent_pool = <<>>
    /\ wpc = [w \in Workers |-> "none"]
    /\ wtask = [w \in Workers |-> 0]
    /\ wagent = [w \in Workers |-> 0]
    /\ wres = [w \in Workers |-> NoRes]
    /\ mpc = "none"
    /\ submitted = 0
    /\ collected = 0
    /\ errors = <<>>
    /\ dlResult = NoRes
    /\ dest = <<>>
    /\ readFails = {}
    /\ temp = [w \in Workers |-> "none"]
    /\ taskResult = <<>>

\* No diff_mod call on its own is under way.
NoDiff == [downloads |-> {}, deletes |-> {}]
IdleDiff ==
    /\ diffPc = "none"
    /\ diffOut = NoDiff
    /\ quickOut = "none"

\* No diff_repo call is under way.
IdleRepo ==
    /\ repoPc = "none"
    /\ remote_repo = [required_mods |-> <<>>, optional_mods |-> <<>>]
    /\ repoCache = EmptyCache
    /\ repoOut = <<>>

\* No ModCache is being operated on its own.
NoOp == [op |-> "none", name |-> "none"]
NoCall == [op |-> "none"]
IdleCache ==
    /\ cacheObj = EmptyCache
    /\ lastOp = [d \in 1..MaxDigest |-> NoOp]
    /\ callOut = NoCall

\* The command-line program is not running.
IdleMain ==
    /\ mainPc = "none"
    /\ command = "none"
    /\ cmdResult = "none"
    /\ exit_code = -1

\* No probe is under way.
NoProbe == [partial |-> FALSE, checksum |-> "none", full_fetch |-> FALSE]
IdleProbe ==
    /\ probePc = "none"
    /\ remote_manifest = [name_len |-> 1, checksum |-> "A1", files |-> <<>>,
                   encoding |-> "json", space |-> 0]
    /\ rangeHonoured = TRUE
    /\ probeOut = NoProbe

\* No helper function is being called on its own.
IdleFn ==
    /\ fnPc = "none"
    /\ fnArgs = [fn |-> "none"]
    /\ fnOut = "none"

\* A sync thread that was not spawned.
NoThread == [pc |-> "none", result |-> "none", sent |-> <<>>]

\* The GUI as NimbleGui::new leaves it: idle, nothing sent, no thread.
IdleGui ==
    /\ gui_state = "Idle"
    /\ channel = <<>>
    /\ sync_cancel = FALSE
    /\ syncThreads = [t \in 1..MaxSyncThreads |-> NoThread]
    /\ launchPc = "none"

\* No function is being called on its own.
IdleCalls == IdleDiff /\ IdleRepo /\ IdleCache /\ IdleMain /\ IdleProbe /\ IdleFn /\ IdleGui

Init ==
    /\ IdleDl
    /\ IdleCalls
    /\ \E loc \in [ModNames -> UNION {LocalModStates(m) : m \in ModNames}] :
          /\ \A m \in ModNames : loc[m] \in LocalModStates(m)
          /\ dirs = [m \in ModNames |-> loc[m].dir]
          /\ files = [m \in ModNames |-> loc[m].files]
          /\ srfFile = [m \in ModNames |-> loc[m].srf]
    /\ cacheFile \in {NoCache, GenSrfCache(dirs, files)}
    /\ \E rem \in [ModNames -> UNION {RemoteModStates(m) : m \in ModNames}] :
          /\ \A m \in ModNames : rem[m] \in RemoteModStates(m)
          /\ remoteFiles = rem
    /\ remoteEncoding \in RemoteEncodings
    /\ pre = [dirs |-> dirs, files |-> files, srfFile |-> srfFile, cacheFile |-> cacheFile]
    /\ IdleRun

\* ------------------------------------------------- sync_with_context
Return(r) ==
    /\ pc' = "idle"
    /\ result' = r

\* The caller starts sync_with_context: the GUI clears the cancel flag, the
\* command line passes a fresh context.  After a sync that returned Ok and
\* was no dry run, further plain syncs (no force, no dry run) are explored.
StartSync ==
    /\ pc = "idle"
    /\ runs > 0 => result = "Ok" /\ ~dry_run
    /\ \E d, f \in BOOLEAN :
          /\ runs > 0 => ~d /\ ~f
          /\ dry_run' = d
          /\ force_sync' = f
    /\ cancel' = FALSE
    /\ result' = "none"
    /\ prev' = [result |-> result, dry_run |-> dry_run, force_sync |-> force_sync]
    /\ runs' = 1
    /\ pre' = [dirs |-> dirs, files |-> files, srfFile |-> srfFile, cacheFile |-> cacheFile]
    /\ events' = NoEvents
    /\ mod_cache' = EmptyCache
    /\ partial_srfs' = <<>>
    /\ idx' = 1
    /\ download_commands' = <<>>
    /\ downloaded_srfs' = <<>>
    /\ pc' = "force_delete"
    /\ UNCHANGED <<dlVars, callVars, fsVars, remoteVars>>

\* The user cancels while the sync runs.
SetCancel ==
    /\ pc # "idle"
    /\ ~cancel
    /\ cancel' = TRUE
    /\ events' = [events EXCEPT !.cancelSet = TRUE]
    /\ UNCHANGED <<dlVars, callVars, fsVars, remoteVars, pc, dry_run, force_sync, result, mod_cache,
                   partial_srfs, idx, download_commands, downloaded_srfs, runs, pre, prev>>

\* ForceDeleteCache without the test of force_sync: the cache file is removed
\* at the start of every run.
ForceDeleteCache_NoFlagCheck ==
    /\ pc = "force_delete"
    /\ pc' = "check1"
    /\ IF cacheFile # NoCache
       THEN \/ /\ cacheFile' = NoCache
               /\ events' = [events EXCEPT !.cacheDeleted = TRUE]
            \/ UNCHANGED <<cacheFile, events>>
       ELSE UNCHANGED <<cacheFile, events>>
    /\ UNCHANGED <<dlVars, callVars, dirs, files, srfFile, remoteVars, dry_run, force_sync, cancel, result,
                   mod_cache, partial_srfs, idx, download_commands, downloaded_srfs,
                   runs, pre, prev>>

\* "If force sync, delete the cache file first"; a failed removal is only
\* warned about.
ForceDeleteCache ==
    /\ pc = "force_delete"
    /\ pc' = "check1"
    /\ IF force_sync /\ cacheFile # NoCache
       THEN \/ /\ cacheFile' = NoCache
               /\ events' = [events EXCEPT !.cacheDeleted = TRUE]
            \/ UNCHANGED <<cacheFile, events>>
       ELSE UNCHANGED <<cacheFile, events>>
    /\ UNCHANGED <<dlVars, callVars, dirs, files, srfFile, remoteVars, dry_run, force_sync, cancel, result,
                   mod_cache, partial_srfs, idx, download_commands, downloaded_srfs,
                   runs, pre, prev>>

\* check_cancelled()? before fetching the repository information
CheckCancelled1 ==
    /\ pc = "check1"
    /\ IF cancel THEN Return("Cancelled") ELSE pc' = "fetch_repo" /\ UNCHANGED result
    /\ UNCHANGED <<dlVars, callVars, fsVars, remoteVars, dry_run, force_sync, cancel, mod_cache,
                   partial_srfs, idx, download_commands, downloaded_srfs, histVars>>

\* repository::get_repository_info; an HTTP or decode failure is returned.
GetRepositoryInfo ==
    /\ pc = "fetch_repo"
    /\ \/ pc' = "check2" /\ UNCHANGED result
       \/ Return("Err")
    /\ UNCHANGED <<dlVars, callVars, fsVars, remoteVars, dry_run, force_sync, cancel, mod_cache,
                   partial_srfs, idx, download_commands, downloaded_srfs, histVars>>

\* check_cancelled()? after it
CheckCancelled2 ==
    /\ pc = "check2"
    /\ IF cancel THEN Return("Cancelled") ELSE pc' = "load_cache" /\ UNCHANGED result
    /\ UNCHANGED <<dlVars, callVars, fsVars, remoteVars, dry_run, force_sync, cancel, mod_cache,
                   partial_srfs, idx, download_commands, downloaded_srfs, histVars>>

\* ModCache::from_disk_or_empty(base_path).context(ModCacheOpenSnafu)?
LoadCache ==
    /\ pc = "load_cache"
    /\ IF from_disk_or_empty.ok
       THEN /\ mod_cache' = from_disk_or_empty.cache
            /\ pc' = "probe"
            /\ idx' = 1
            /\ UNCHANGED <<result, events>>
       ELSE /\ Return("Err")
            /\ events' = [events EXCEPT !.cacheLoadFailed = TRUE]
            /\ UNCHANGED <<mod_cache, idx>>
    /\ UNCHANGED <<dlVars, callVars, fsVars, remoteVars, dry_run, force_sync, cancel,
                   partial_srfs, download_commands, downloaded_srfs, runs, pre, prev>>

\* One iteration of "Download all partial SRF files upfront".
ProbeStep ==
    /\ pc = "probe"
    /\ IF idx > Len(required_mods)
       THEN /\ pc' = "diff"
            /\ idx' = 1
            /\ UNCHANGED <<partial_srfs, result, events>>
       ELSE \/ /\ partial_srfs' = Append(partial_srfs,
                                         download_remote_srf_partial(required_mods[idx]))
               /\ idx' = idx + 1
               /\ events' = IF download_remote_srf_partial(required_mods[idx]).partial
                            THEN events
                            ELSE [events EXCEPT !.probeFull = @ \cup {required_mods[idx]}]
               /\ UNCHANGED <<pc, result>>
            \/ /\ Return("Err")
               /\ UNCHANGED <<partial_srfs, idx, events>>
    /\ UNCHANGED <<dlVars, callVars, fsVars, remoteVars, dry_run, force_sync, cancel, mod_cache,
                   download_commands, downloaded_srfs, runs, pre, prev>>


\* remove_leftover_files that gives up at the first removal that fails.
remove_leftover_files_StopsAtFailure(m, deletes, failed) ==
    IF failed # {} THEN files[m] ELSE [p \in PathsOf(m) |->
        IF p \in deletes THEN NoFile ELSE files[m][p]]

\* remove_leftover_files: every Delete task whose file exists is removed,
\* unless the removal fails (warning only); failed is the set that fails.
remove_leftover_files(m, deletes, failed) ==
    [p \in PathsOf(m) |->
        IF p \in deletes /\ p \notin failed THEN NoFile ELSE files[m][p]]

\* DiffSkips that runs quick_diff whatever force_sync is.
DiffSkips_QuickDiffAlsoWhenForced(t) ==
    \/ t.partial /\ quick_diff(t.mod, t.srf) = "UpToDate"
    \/ ~force_sync /\ ~t.partial

\* The mod is skipped in the diff loop: quick_diff says UpToDate, or neither
\* branch of the loop body applies.
DiffSkips(t) ==
    \/ ~force_sync /\ t.partial /\ quick_diff(t.mod, t.srf) = "UpToDate"
    \/ ~force_sync /\ ~t.partial

\* process_mod_diff on the full manifest, and the loop body's bookkeeping;
\* removed says whether the forced removal of mod.srf took place.  (A kept
\* mod.srf that cannot be read makes diff_mod fail: DiffStep returns Err.)
ProcessModDiff(m, removed) ==
    LET full_srf == RemoteSrf(m)
        d == diff_mod(m, full_srf, removed)
        existing == {p \in d.deletes : p \in PathsOf(m) /\ files[m][p] # NoFile}
    IN  /\ LocalSrfForDiff(m, removed) # CorruptSrf
        /\ dirs' = [dirs EXCEPT ![m] = TRUE]
        /\ srfFile' = [srfFile EXCEPT ![m] = LocalSrfForDiff(m, removed)]
        /\ \E failed \in SUBSET existing :
              /\ files' = [files EXCEPT ![m] = remove_leftover_files(m, existing, failed)]
              /\ events' = [events EXCEPT
                              !.fullFetched = @ \cup {m},
                              !.diffed = @ \cup {m},
                              !.downloadTasks = @ \cup {<<m, p>> : p \in d.downloads},
                              !.deleteTasks = @ \cup {<<m, p>> : p \in d.deletes},
                              !.deleted = @ \cup {<<m, p>> : p \in existing \ failed}]
        /\ \E cmds \in CommandLists(m, d.downloads) :
              download_commands' = download_commands \o cmds
        /\ downloaded_srfs' =
              IF d.downloads # {}
              THEN Append(downloaded_srfs, [mod_name |-> m, srf_data |-> full_srf])
              ELSE downloaded_srfs

\* One iteration of the loop over partial_srfs.
DiffStep ==
    /\ pc = "diff"
    /\ IF idx > Len(partial_srfs)
       THEN /\ pc' = "dry_check"
            /\ UNCHANGED <<idx, result, dirs, files, srfFile, events,
                           download_commands, downloaded_srfs>>
       ELSE LET t == partial_srfs[idx] IN
            IF ~force_sync /\ t.partial /\ quick_diff(t.mod, t.srf) = "Err"
            THEN /\ Return("Err")        \* diff::quick_diff(..)?
                 /\ events' = [events EXCEPT !.quickFailed = @ \cup {t.mod}]
                 /\ UNCHANGED <<idx, dirs, files, srfFile,
                                download_commands, downloaded_srfs>>
            ELSE IF DiffSkips(t)
            THEN /\ idx' = idx + 1
                 /\ events' = IF t.partial
                              THEN [events EXCEPT !.upToDate = @ \cup {t.mod}]
                              ELSE events
                 /\ UNCHANGED <<pc, result, dirs, files, srfFile,
                                download_commands, downloaded_srfs>>
            ELSE \/ /\ \E removed \in SrfRemovals(t.mod, force_sync) :
                          ProcessModDiff(t.mod, removed)
                    /\ idx' = idx + 1
                    /\ UNCHANGED <<pc, result>>
                 \/ /\ Return("Err")      \* download_remote_srf(.., false)?
                    /\ UNCHANGED <<idx, dirs, files, srfFile, events,
                                   download_commands, downloaded_srfs>>
    /\ UNCHANGED <<dlVars, callVars, cacheFile, remoteVars, dry_run, force_sync, cancel, mod_cache,
                   partial_srfs, runs, pre, prev>>

\* "if dry_run { return Ok(()) }"
DryRunCheck ==
    /\ pc = "dry_check"
    /\ IF dry_run
       THEN Return("Ok") /\ UNCHANGED idx
       ELSE pc' = "dl_check" /\ idx' = 1 /\ UNCHANGED result
    /\ UNCHANGED <<dlVars, callVars, fsVars, remoteVars, dry_run, force_sync, cancel, mod_cache,
                   partial_srfs, download_commands, downloaded_srfs, histVars>>

\* sync.rs execute_command_list: the loop head with its cancel check; after
\* the last command it returns Ok.
ExecuteCommandList ==
    /\ pc = "dl_check"
    /\ IF idx > Len(download_commands)
       THEN pc' = "save_srf" /\ UNCHANGED result
       ELSE IF cancel THEN Return("Cancelled")
       ELSE pc' = "dl_body" /\ UNCHANGED result
    /\ UNCHANGED <<dlVars, callVars, fsVars, remoteVars, dry_run, force_sync, cancel, mod_cache,
                   partial_srfs, idx, download_commands, downloaded_srfs, histVars>>

\* The loop of execute_command_list that diffs the mods again after each
\* file.
NextCommand_RediffsMods ==
    idx' = 1 /\ pc' = "diff"

\* execute_command_list: the for loop goes on to its next command.
NextCommand ==
    idx' = idx + 1 /\ pc' = "dl_check"

\* download_file into a temporary file, then the copy to the final path.
\* The request may fail; cancellation is seen when a chunk has been read.
DownloadFile ==
    /\ pc = "dl_body"
    /\ LET c == download_commands[idx] IN
       \/ /\ Return("Err")
          /\ UNCHANGED <<files, idx, events>>
       \/ /\ cancel
          /\ Return("Cancelled")
          /\ UNCHANGED <<files, idx, events>>
       \/ /\ ~cancel
          /\ files' = [files EXCEPT ![c.mod][c.path] = remoteFiles[c.mod][c.path]]
          /\ events' = [events EXCEPT !.downloaded = @ \cup {<<c.mod, c.path>>}]
          /\ NextCommand
          /\ UNCHANGED result
    /\ UNCHANGED <<dlVars, callVars, dirs, srfFile, cacheFile, remoteVars, dry_run, force_sync, cancel,
                   mod_cache, partial_srfs, download_commands, downloaded_srfs,
                   runs, pre, prev>>

\* save_srf_files, its first k iterations: the remote manifest becomes
\* mod.srf of the first k mods that had downloads.
save_srf_files_upto(k) ==
    [m \in ModNames |->
        IF \E j \in 1..k : downloaded_srfs[j].mod_name = m
        THEN RemoteSrf(m)
        ELSE srfFile[m]]

\* save_srf_files: the remote manifest becomes mod.srf of every mod that had
\* downloads.
save_srf_files == save_srf_files_upto(Len(downloaded_srfs))

\* save_srf_files(..)? that goes on to the cache whatever was returned.
SaveSrfExit_ErrorIgnored(ok) ==
    pc' = "commit" /\ UNCHANGED result

\* "save_srf_files(base_path, &downloaded_srfs)?": an error is returned.
SaveSrfExit(ok) ==
    IF ok THEN pc' = "commit" /\ UNCHANGED result ELSE Return("Err")

\* save_srf_files as a whole: every mod.srf is written, or the k-th write
\* fails after the first k - 1.  create_dir_all or File::create failing
\* leaves the old mod.srf; to_writer failing leaves a file that File::create
\* has truncated.
SaveSrfFiles ==
    /\ pc = "save_srf"
    /\ \/ /\ srfFile' = save_srf_files
          /\ events' = [events EXCEPT !.srfSaved =
                           {downloaded_srfs[k].mod_name : k \in 1..Len(downloaded_srfs)}]
          /\ SaveSrfExit(TRUE)
       \/ \E k \in 1..Len(downloaded_srfs), truncated \in BOOLEAN :
             /\ srfFile' = [save_srf_files_upto(k - 1) EXCEPT
                               ![downloaded_srfs[k].mod_name] =
                                   IF truncated THEN CorruptSrf ELSE @]
             /\ events' = [events EXCEPT
                             !.srfSaved = {downloaded_srfs[j].mod_name : j \in 1..(k - 1)},
                             !.srfSaveFailed = TRUE]
             /\ SaveSrfExit(FALSE)
    /\ UNCHANGED <<dlVars, callVars, dirs, files, cacheFile, remoteVars, dry_run, force_sync, cancel,
                   mod_cache, partial_srfs, idx, download_commands,
                   downloaded_srfs, runs, pre, prev>>

\* The cache sync_with_context persists: the loaded cache with the
\* repository and the time of this sync recorded.
CacheToCommit == [mod_cache EXCEPT !.repository = "repo", !.last_sync = "now"]

\* mod_cache.repository = ..; mod_cache.last_sync = ..; mod_cache.to_disk(..)
\* (a save that succeeds; SpecCache runs to_disk step by step).
CommitCache ==
    /\ pc = "commit"
    /\ mod_cache' = CacheToCommit
    /\ cacheFile' = CacheToCommit
    /\ events' = [events EXCEPT !.cacheWritten = TRUE]
    /\ Return("Ok")
    /\ UNCHANGED <<dlVars, callVars, dirs, files, srfFile, remoteVars, dry_run, force_sync, cancel,
                   partial_srfs, idx, download_commands, downloaded_srfs,
                   runs, pre, prev>>

Next ==
    \/ StartSync
    \/ SetCancel
    \/ ForceDeleteCache
    \/ CheckCancelled1
    \/ GetRepositoryInfo
    \/ CheckCancelled2
    \/ LoadCache
    \/ ProbeStep
    \/ DiffStep
    \/ DryRunCheck
    \/ ExecuteCommandList
    \/ DownloadFile
    \/ SaveSrfFiles
    \/ CommitCache

vars == <<dirs, files, srfFile, cacheFile, remoteFiles, remoteEncoding,
          pc, dry_run, force_sync, cancel, result, mod_cache, partial_srfs, idx,
          download_commands, downloaded_srfs, runs, pre, events, prev,
          commands, httpFails, dlCancel, workQ, workTxOpen, resultQ, agent_pool,
          wpc, wtask, wagent, wres, mpc, submitted, collected, errors, dlResult, dest,
            readFails, temp, taskResult,
          diffPc, diffOut, quickOut,
          repoPc, remote_repo, repoCache, repoOut,
          cacheObj, lastOp, callOut,
          mainPc, command, cmdResult, exit_code,
          probePc, remote_manifest, rangeHonoured, probeOut,
          fnPc, fnArgs, fnOut,
          gui_state, channel, sync_cancel, syncThreads, launchPc>>

Spec == Init /\ [][Next]_vars

\* ----------------------------------------- sync over damaged local files
\* The local states of specification SpecDamaged: @a's directory holds any
\* files and a mod.srf that is accurate or cannot be read; @b is not
\* installed; nimble-cache.json is absent, unreadable, undecodable, or the
\* one gen_srf wrote.
DamagedFiles ==
    /\ dirs = [m \in ModNames |-> m = "@a"]
    /\ \E f \in DirsOf("@a") :
          /\ files = [m \in ModNames |-> IF m = "@a" THEN f ELSE EmptyDir(m)]
          /\ \E s \in {CorruptSrf, scan_mod("@a", f)} :
                srfFile = [m \in ModNames |-> IF m = "@a" THEN s ELSE NoSrf]
    /\ cacheFile \in {NoCache, UnreadableCache, CorruptCache, GenSrfCache(dirs, files)}
    /\ \E r \in RemoteModStates("@a") :
          remoteFiles = [m \in ModNames |-> IF m = "@a" THEN r ELSE [p \in PathsOf(m) |-> 1]]
    /\ remoteEncoding \in RemoteEncodings
    /\ pre = [dirs |-> dirs, files |-> files, srfFile |-> srfFile, cacheFile |-> cacheFile]

InitDamaged ==
    /\ IdleDl
    /\ IdleCalls
    /\ DamagedFiles
    /\ IdleRun

SpecDamaged == InitDamaged /\ [][Next]_vars

\* ---------------------------------------------- the command-line program
\* Option::unwrap / Result::unwrap in main: Ok lets main return (exit code
\* 0), Err panics (the Rust runtime ends the process with code 101).
unwrap_exit(res) == IF res = "Ok" THEN 0 ELSE 101

\* main is entered: the arguments are parsed and one command is run.
InitMain ==
    /\ IdleDl
    /\ IdleGui
    /\ IdleFn
    /\ IdleDiff
    /\ IdleRepo
    /\ IdleCache
    /\ IdleProbe
    /\ DamagedFiles
    /\ IdleRun
    /\ mainPc = "start"
    /\ command = "none"
    /\ cmdResult = "none"
    /\ exit_code = -1

\* What the steps of main leave alone.
mainFrame == <<syncVars, dlVars, callsButMain>>

\* Args::parse() and the match on args.command
MainParse ==
    /\ mainPc = "start"
    /\ command' \in {"Sync", "GenSrf", "Launch"}
    /\ mainPc' = "run"
    /\ UNCHANGED <<cmdResult, exit_code, mainFrame>>

\* main is inside commands::sync::sync(..), which passes a fresh
\* SyncContext: nothing sets its cancel flag.
InSync == mainPc = "run" /\ command = "Sync"

\* commands::sync::sync(..).unwrap() once sync has returned
MainSyncReturned ==
    /\ InSync
    /\ pc = "idle" /\ runs > 0
    /\ cmdResult' = result
    /\ exit_code' = unwrap_exit(result)
    /\ mainPc' = "exited"
    /\ UNCHANGED <<command, mainFrame>>

\* commands::gen_srf::gen_srf(&path); the Result is dropped.
MainGenSrf ==
    /\ mainPc = "run" /\ command = "GenSrf"
    /\ cmdResult' \in {"Ok", "Err"}
    /\ exit_code' = 0
    /\ mainPc' = "exited"
    /\ UNCHANGED <<command, mainFrame>>

\* commands::launch::launch(&path).unwrap()
MainLaunch ==
    /\ mainPc = "run" /\ command = "Launch"
    /\ \E r \in {"Ok", "Err"} :
          /\ cmdResult' = r
          /\ exit_code' = unwrap_exit(r)
    /\ mainPc' = "exited"
    /\ UNCHANGED <<command, mainFrame>>

NextMain ==
    \/ MainParse
    \/ InSync /\ runs = 0 /\ StartSync
    \/ InSync /\ ForceDeleteCache
    \/ InSync /\ CheckCancelled1
    \/ InSync /\ GetRepositoryInfo
    \/ InSync /\ CheckCancelled2
    \/ InSync /\ LoadCache
    \/ InSync /\ ProbeStep
    \/ InSync /\ DiffStep
    \/ InSync /\ DryRunCheck
    \/ InSync /\ ExecuteCommandList
    \/ InSync /\ DownloadFile
    \/ InSync /\ SaveSrfFiles
    \/ InSync /\ CommitCache
    \/ MainSyncReturned
    \/ MainGenSrf
    \/ MainLaunch

SpecMain == InitMain /\ [][NextMain]_vars


\* =================================================================
\* The parallel downloader: download.rs execute_command_list
\* =================================================================
\* No sync runs; the base directory is empty and the remote publishes empty
\* mods.
QuietSync ==
    /\ dirs = [m \in ModNames |-> FALSE]
    /\ files = [m \in ModNames |-> EmptyDir(m)]
    /\ srfFile = [m \in ModNames |-> NoSrf]
    /\ cacheFile = NoCache
    /\ remoteFiles = [m \in ModNames |-> EmptyDir(m)]
    /\ remoteEncoding = [m \in ModNames |-> "json"]
    /\ pre = [dirs |-> dirs, files |-> files, srfFile |-> srfFile, cacheFile |-> cacheFile]
    /\ IdleRun

\* execute_command_list has created the channels and the agent pool and has
\* spawned the workers; the main thread is about to submit the work.  Each
\* task's request fails, or its body fails to read midway, or neither.
InitDl ==
    /\ QuietSync
    /\ IdleCalls
    /\ commands \in 0..MaxTasks
    /\ httpFails \in SUBSET (1..commands)
    /\ readFails \in SUBSET ((1..commands) \ httpFails)
    /\ dlCancel = FALSE
    /\ workQ = <<>>
    /\ workTxOpen = TRUE
    /\ resultQ = <<>>
    /\ agent_pool = [k \in 1..MAX_CONCURRENT_DOWNLOADS |-> k]
    /\ wpc = [w \in Workers |-> "recv"]
    /\ wtask = [w \in Workers |-> 0]
    /\ wagent = [w \in Workers |-> 0]
    /\ wres = [w \in Workers |-> NoRes]
    /\ temp = [w \in Workers |-> "none"]
    /\ mpc = "submit"
    /\ submitted = 0
    /\ collected = 0
    /\ errors = <<>>
    /\ dlResult = NoRes
    /\ dest = [t \in 1..commands |-> "old"]
    /\ taskResult = [t \in 1..commands |-> NoRes]

\* The user cancels while the downloader runs.
DlSetCancel ==
    /\ mpc # "returned"
    /\ ~dlCancel
    /\ dlCancel' = TRUE
    /\ UNCHANGED <<syncVars, callVars, commands, httpFails, readFails, workQ, workTxOpen, resultQ,
                   agent_pool, wpc, wtask, wagent, wres, temp, mpc, submitted, collected,
                   errors, dlResult, dest, taskResult>>

\* "Submit work": work_tx.send(command) blocks while the channel is full and
\* fails only when every receiver is dropped (main keeps work_rx, so it never
\* fails); after the last command, drop(work_tx).
MainSubmit ==
    /\ mpc = "submit"
    /\ IF submitted < commands
       THEN /\ Len(workQ) < WorkChannelCapacity
            /\ workQ' = Append(workQ, submitted + 1)
            /\ submitted' = submitted + 1
            /\ UNCHANGED <<workTxOpen, mpc>>
       ELSE /\ workTxOpen' = FALSE
            /\ mpc' = "collect"
            /\ UNCHANGED <<workQ, submitted>>
    /\ UNCHANGED <<syncVars, callVars, commands, httpFails, readFails, dlCancel, resultQ, agent_pool,
                   wpc, wtask, wagent, wres, temp, collected, errors, dlResult, dest,
                   taskResult>>

\* "Collect results": total_files times result_rx.recv(), which blocks while
\* the channel is empty and fails only when every sender is dropped (main
\* keeps result_tx, so it never fails).
MainCollect ==
    /\ mpc = "collect"
    /\ IF collected < commands
       THEN /\ resultQ # <<>>
            /\ resultQ' = Tail(resultQ)
            /\ errors' = IF Head(resultQ) = OkRes THEN errors ELSE Append(errors, Head(resultQ))
            /\ collected' = collected + 1
            /\ UNCHANGED mpc
       ELSE /\ mpc' = "join"
            /\ UNCHANGED <<resultQ, errors, collected>>
    /\ UNCHANGED <<syncVars, callVars, commands, httpFails, readFails, dlCancel, workQ, workTxOpen,
                   agent_pool, wpc, wtask, wagent, wres, temp, submitted, dlResult, dest,
                   taskResult>>

\* "Handle errors" with the first error returned as it is, Cancelled or not.
BatchResult_FirstErrorWins(errs) ==
    IF errs = <<>> THEN OkRes ELSE errs[1]

\* "Handle errors": Cancelled if any error is Cancelled, else the first
\* error, else Ok.
BatchResult(errs) ==
    IF errs = <<>> THEN OkRes
    ELSE IF \E k \in 1..Len(errs) : errs[k] = CancelledRes THEN CancelledRes
    ELSE errs[1]

\* "Wait for workers to finish", then the result.
MainJoin ==
    /\ mpc = "join"
    /\ \A w \in Workers : wpc[w] = "exited"
    /\ dlResult' = BatchResult(errors)
    /\ mpc' = "returned"
    /\ UNCHANGED <<syncVars, callVars, commands, httpFails, readFails, dlCancel, workQ, workTxOpen,
                   resultQ, agent_pool, wpc, wtask, wagent, wres, temp, submitted,
                   collected, errors, dest, taskResult>>

\* while let Ok(command) = work_rx.recv(): a command, or the end of the loop
\* when the channel is empty and work_tx is dropped.  The workers run the
\* same code and are interchangeable: of the workers waiting in recv, the
\* one with the lowest number is taken to be the one that gets the command.
WorkerRecv(w) ==
    /\ wpc[w] = "recv"
    /\ IF workQ # <<>>
       THEN /\ \A v \in Workers : wpc[v] = "recv" => w <= v
            /\ wtask' = [wtask EXCEPT ![w] = Head(workQ)]
            /\ workQ' = Tail(workQ)
            /\ wpc' = [wpc EXCEPT ![w] = "check"]
       ELSE /\ ~workTxOpen
            /\ wpc' = [wpc EXCEPT ![w] = "exited"]
            /\ UNCHANGED <<wtask, workQ>>
    /\ UNCHANGED <<syncVars, callVars, commands, httpFails, readFails, dlCancel, workTxOpen, resultQ,
                   agent_pool, wagent, wres, temp, mpc, submitted, collected, errors,
                   dlResult, dest, taskResult>>

\* The command a worker dropped when it left its loop on cancellation.
DroppedRes == [kind |-> "Dropped", task |-> 0]

\* WorkerCheckCancel with the agent read from the pool but left in it.
WorkerCheckCancel_AgentLeftInPool(w) ==
    /\ wpc[w] = "check"
    /\ IF dlCancel
       THEN /\ wpc' = [wpc EXCEPT ![w] = "exited"]
            /\ taskResult' = [taskResult EXCEPT ![wtask[w]] = DroppedRes]
            /\ UNCHANGED <<agent_pool, wagent, temp>>
       ELSE /\ wpc' = [wpc EXCEPT ![w] = "download"]
            /\ temp' = [temp EXCEPT ![w] = "empty"]
            /\ wagent' = [wagent EXCEPT ![w] =
                             IF agent_pool # <<>> THEN agent_pool[Len(agent_pool)]
                             ELSE MAX_CONCURRENT_DOWNLOADS + w]
            /\ UNCHANGED <<agent_pool, taskResult>>
    /\ UNCHANGED <<syncVars, callVars, commands, httpFails, readFails, dlCancel, workQ, workTxOpen,
                   resultQ, wtask, wres, mpc, submitted, collected, errors, dlResult, dest>>

\* if context.cancel.load() { break; }: the worker leaves its loop and the
\* command is dropped.  Else an agent is taken from the pool (a new one is
\* built when the pool is empty) and the closure starts with tempfile().
WorkerCheckCancel(w) ==
    /\ wpc[w] = "check"
    /\ IF dlCancel
       THEN /\ wpc' = [wpc EXCEPT ![w] = "exited"]
            /\ taskResult' = [taskResult EXCEPT ![wtask[w]] = DroppedRes]
            /\ UNCHANGED <<agent_pool, wagent, temp>>
       ELSE /\ wpc' = [wpc EXCEPT ![w] = "download"]
            /\ temp' = [temp EXCEPT ![w] = "empty"]
            /\ IF agent_pool # <<>>
               THEN /\ wagent' = [wagent EXCEPT ![w] = agent_pool[Len(agent_pool)]]
                    /\ agent_pool' = SubSeq(agent_pool, 1, Len(agent_pool) - 1)
               ELSE /\ wagent' = [wagent EXCEPT ![w] = MAX_CONCURRENT_DOWNLOADS + w]
                    /\ UNCHANGED agent_pool
            /\ UNCHANGED taskResult
    /\ UNCHANGED <<syncVars, callVars, commands, httpFails, readFails, dlCancel, workQ, workTxOpen,
                   resultQ, wtask, wres, mpc, submitted, collected, errors, dlResult, dest>>

\* WorkerDownload with the destination created before the body is fetched:
\* a cancelled task leaves an empty destination.
WorkerDownload_CreatesDestinationFirst(w) ==
    /\ wpc[w] = "download"
    /\ IF wtask[w] \in httpFails
       THEN /\ wres' = [wres EXCEPT ![w] = HttpRes(wtask[w])]
            /\ temp' = [temp EXCEPT ![w] = "none"]
            /\ wpc' = [wpc EXCEPT ![w] = "release"]
            /\ UNCHANGED dest
       ELSE IF dlCancel
       THEN /\ wres' = [wres EXCEPT ![w] = CancelledRes]
            /\ temp' = [temp EXCEPT ![w] = "none"]
            /\ wpc' = [wpc EXCEPT ![w] = "release"]
            /\ dest' = [dest EXCEPT ![wtask[w]] = "empty"]
       ELSE /\ temp' = [temp EXCEPT ![w] =
                           IF wtask[w] \in readFails THEN "truncated" ELSE "complete"]
            /\ wpc' = [wpc EXCEPT ![w] = "create"]
            /\ UNCHANGED <<wres, dest>>
    /\ UNCHANGED <<syncVars, callVars, commands, httpFails, readFails, dlCancel, workQ, workTxOpen,
                   resultQ, agent_pool, wtask, wagent, mpc, submitted, collected, errors,
                   dlResult, taskResult>>

\* download_file into the temporary file.  The request fails (Http); or the
\* body is read chunk by chunk: cancellation seen after a chunk gives
\* Cancelled; a read error ends the loop "while let Ok(n) = reader.read(..)"
\* like the end of the stream, so download_file returns Ok with the body
\* read so far.  When the closure returns an error the temporary file is
\* dropped, which removes it.
WorkerDownload(w) ==
    /\ wpc[w] = "download"
    /\ IF wtask[w] \in httpFails
       THEN /\ wres' = [wres EXCEPT ![w] = HttpRes(wtask[w])]
            /\ temp' = [temp EXCEPT ![w] = "none"]
            /\ wpc' = [wpc EXCEPT ![w] = "release"]
       ELSE IF dlCancel
       THEN /\ wres' = [wres EXCEPT ![w] = CancelledRes]
            /\ temp' = [temp EXCEPT ![w] = "none"]
            /\ wpc' = [wpc EXCEPT ![w] = "release"]
       ELSE /\ temp' = [temp EXCEPT ![w] =
                           IF wtask[w] \in readFails THEN "truncated" ELSE "complete"]
            /\ wpc' = [wpc EXCEPT ![w] = "create"]
            /\ UNCHANGED wres
    /\ UNCHANGED <<syncVars, callVars, commands, httpFails, readFails, dlCancel, workQ, workTxOpen,
                   resultQ, agent_pool, wtask, wagent, mpc, submitted, collected, errors,
                   dlResult, dest, taskResult>>

\* File::create(&file_path): the destination exists and is empty.
WorkerCreate(w) ==
    /\ wpc[w] = "create"
    /\ dest' = [dest EXCEPT ![wtask[w]] = "empty"]
    /\ wpc' = [wpc EXCEPT ![w] = "copy"]
    /\ UNCHANGED <<syncVars, callVars, commands, httpFails, readFails, dlCancel, workQ, workTxOpen,
                   resultQ, agent_pool, wtask, wagent, wres, temp, mpc, submitted,
                   collected, errors, dlResult, taskResult>>

\* std::io::copy(&mut temp_download_file, &mut local_file); Ok(()): the
\* destination holds what the temporary file held; the temporary file is
\* dropped.
WorkerCopy(w) ==
    /\ wpc[w] = "copy"
    /\ dest' = [dest EXCEPT ![wtask[w]] = temp[w]]
    /\ temp' = [temp EXCEPT ![w] = "none"]
    /\ wres' = [wres EXCEPT ![w] = OkRes]
    /\ wpc' = [wpc EXCEPT ![w] = "release"]
    /\ UNCHANGED <<syncVars, callVars, commands, httpFails, readFails, dlCancel, workQ, workTxOpen,
                   resultQ, agent_pool, wtask, wagent, mpc, submitted, collected, errors,
                   dlResult, taskResult>>

\* agent_pool.lock().unwrap().push(agent); result_tx.send(result).ok();
WorkerRelease(w) ==
    /\ wpc[w] = "release"
    /\ agent_pool' = Append(agent_pool, wagent[w])
    /\ wagent' = [wagent EXCEPT ![w] = 0]
    /\ resultQ' = Append(resultQ, wres[w])
    /\ taskResult' = [taskResult EXCEPT ![wtask[w]] = wres[w]]
    /\ wres' = [wres EXCEPT ![w] = NoRes]
    /\ wtask' = [wtask EXCEPT ![w] = 0]
    /\ wpc' = [wpc EXCEPT ![w] = "recv"]
    /\ UNCHANGED <<syncVars, callVars, commands, httpFails, readFails, dlCancel, workQ, workTxOpen,
                   temp, mpc, submitted, collected, errors, dlResult, dest>>

\* The steps of the downloader's own threads.
DlThreads ==
    \/ MainSubmit
    \/ MainCollect
    \/ MainJoin
    \/ \E w \in Workers :
          \/ WorkerRecv(w)
          \/ WorkerCheckCancel(w)
          \/ WorkerDownload(w)
          \/ WorkerCreate(w)
          \/ WorkerCopy(w)
          \/ WorkerRelease(w)

NextDl ==
    \/ DlSetCancel
    \/ MainSubmit
    \/ MainCollect
    \/ MainJoin
    \/ \E w \in Workers : WorkerRecv(w)
    \/ \E w \in Workers : WorkerCheckCancel(w)
    \/ \E w \in Workers : WorkerDownload(w)
    \/ \E w \in Workers : WorkerCreate(w)
    \/ \E w \in Workers : WorkerCopy(w)
    \/ \E w \in Workers : WorkerRelease(w)

SpecDl == InitDl /\ [][NextDl]_vars

\* =================================================================
\* diff_mod on its own: diff.rs diff_mod called once on one mod
\* =================================================================
\* The relative paths of the mod under diff: two spellings of one file name
\* that differ in case only, and another file.
DiffPaths == {"x", "X", "y"}

\* The mod directories over DiffPaths (a case-sensitive file system).
DiffDirs == [DiffPaths -> {NoFile} \cup Contents]

\* The local states of the mod before diff_mod: no directory; or a directory
\* with any files and no mod.srf, or a mod.srf listing any directory (the
\* one on disk or another one), or a mod.srf that cannot be read.
DiffLocalStates ==
    {[dir |-> FALSE, files |-> [p \in DiffPaths |-> NoFile], srf |-> NoSrf]} \cup
    {[dir |-> TRUE, files |-> f, srf |-> s] :
        f \in DiffDirs,
        s \in {NoSrf, CorruptSrf} \cup {scan_mod("@a", g) : g \in DiffDirs}}

\* diff_mod, or quick_diff, is about to be called for mod @a with the remote
\* manifest RemoteSrf("@a") and force_scan = force_sync.
InitDiff ==
    /\ IdleDl
    /\ IdleGui
    /\ IdleFn
    /\ IdleRepo
    /\ IdleCache
    /\ IdleMain
    /\ IdleProbe
    /\ diffPc = "call"
    /\ diffOut = NoDiff
    /\ quickOut = "none"
    /\ \E loc \in DiffLocalStates :
          /\ dirs = [m \in ModNames |-> IF m = "@a" THEN loc.dir ELSE FALSE]
          /\ files = [m \in ModNames |-> IF m = "@a" THEN loc.files ELSE EmptyDir(m)]
          /\ srfFile = [m \in ModNames |-> IF m = "@a" THEN loc.srf ELSE NoSrf]
    /\ cacheFile = NoCache
    /\ \E r \in DiffDirs :
          remoteFiles = [m \in ModNames |-> IF m = "@a" THEN r ELSE EmptyDir(m)]
    /\ remoteEncoding = [m \in ModNames |-> "json"]
    /\ pre = [dirs |-> dirs, files |-> files, srfFile |-> srfFile, cacheFile |-> cacheFile]
    /\ force_sync \in BOOLEAN
    /\ pc = "idle"
    /\ dry_run = FALSE
    /\ cancel = FALSE
    /\ result = "none"
    /\ mod_cache = EmptyCache
    /\ partial_srfs = <<>>
    /\ idx = 1
    /\ download_commands = <<>>
    /\ downloaded_srfs = <<>>
    /\ runs = 0
    /\ events = NoEvents
    /\ prev = [result |-> "none", dry_run |-> FALSE, force_sync |-> FALSE]

\* diff_mod(base, "@a", remote_srf, force_scan): creates the directory,
\* writes the generated mod.srf when there was none (or force_scan), and
\* returns the lists.  A mod.srf that is kept and cannot be read makes it
\* return the error ("failed").
DiffModCall ==
    /\ diffPc = "call"
    /\ \E removed \in SrfRemovals("@a", force_sync) :
          IF LocalSrfForDiff("@a", removed) = CorruptSrf
          THEN /\ diffPc' = "failed"
               /\ UNCHANGED <<diffOut, dirs, srfFile>>
          ELSE /\ diffOut' = diff_mod("@a", RemoteSrf("@a"), removed)
               /\ dirs' = [dirs EXCEPT !["@a"] = TRUE]
               /\ srfFile' = [srfFile EXCEPT !["@a"] = LocalSrfForDiff("@a", removed)]
               /\ diffPc' = "done"
    /\ UNCHANGED <<dlVars, callsButDiff, quickOut, files, cacheFile, remoteVars, runVars,
                   histVars>>

\* quick_diff(base, "@a", remote_srf) with the partial manifest the probe of
\* the remote mod.srf gives; it only reads.
QuickDiffCall ==
    /\ diffPc = "call"
    /\ quickOut' = quick_diff("@a", download_remote_srf_partial("@a").srf)
    /\ diffPc' = "quick_done"
    /\ UNCHANGED <<dlVars, callsButDiff, diffOut, fsVars, remoteVars, runVars, histVars>>

NextDiff == DiffModCall \/ QuickDiffCall

SpecDiff == InitDiff /\ [][NextDiff]_vars

\* ------------------------------------------------ one diff_repo call
\* The entries of repo.json's mod lists: a name and a digest.
RepoMods == [mod_name : ModNames, checksum : 1..MaxDigest]

\* The lists of at most MaxRepoMods mods.
RepoModLists == UNION {[1..n -> RepoMods] : n \in 0..MaxRepoMods}

\* The caches over the digests: any set of keys, each mapped to a name.
RepoCaches ==
    {[mods |-> {[digest |-> d, name |-> "@a"] : d \in K},
      repository |-> "none", last_sync |-> "none"] : K \in SUBSET (1..MaxDigest)}

\* mod_cache.mods.contains_key(digest)
contains_key(cache, digest) == \E e \in cache.mods : e.digest = digest

\* diff_repo that looks at required_mods only.
diff_repo_RequiredOnly(cache, repo) ==
    SelectSeq(repo.required_mods, LAMBDA m : ~contains_key(cache, m.checksum))

\* diff.rs diff_repo: the mods of required_mods chained with optional_mods
\* whose checksum is not a key of the cache, pushed in that order.
diff_repo(cache, repo) ==
    SelectSeq(repo.required_mods \o repo.optional_mods,
              LAMBDA m : ~contains_key(cache, m.checksum))

InitRepo ==
    /\ QuietSync
    /\ IdleDl
    /\ IdleGui
    /\ IdleFn
    /\ IdleDiff
    /\ IdleCache
    /\ IdleMain
    /\ IdleProbe
    /\ repoPc = "call"
    /\ \E req, opt \in RepoModLists :
          remote_repo = [required_mods |-> req, optional_mods |-> opt]
    /\ repoCache \in RepoCaches
    /\ repoOut = <<>>

\* diff_repo(&mod_cache, &remote_repo)
DiffRepoCall ==
    /\ repoPc = "call"
    /\ repoOut' = diff_repo(repoCache, remote_repo)
    /\ repoPc' = "done"
    /\ UNCHANGED <<syncVars, dlVars, callsButRepo, remote_repo, repoCache>>

NextRepo == DiffRepoCall

SpecRepo == InitRepo /\ [][NextRepo]_vars

\* ------------------------------------- ModCache and nimble-cache.json
\* HashMap<Md5Digest, Mod>: every map from some digests to names, as the set
\* of its (digest, name) entries.
ModMaps ==
    {{[digest |-> d, name |-> f[d]] : d \in K} :
        K \in SUBSET (1..MaxDigest), f \in [1..MaxDigest -> ModNames]}

\* The caches a complete nimble-cache.json may hold: never synced, or synced.
DiskCaches ==
    {[mods |-> M, repository |-> r.repository, last_sync |-> r.last_sync] :
        M \in ModMaps,
        r \in {[repository |-> "none", last_sync |-> "none"],
               [repository |-> "repo", last_sync |-> "now"]}}

\* The manifests passed to insert: a name and an aggregate digest.
Manifests == [name : ModNames, checksum : 1..MaxDigest]

\* ModCache::insert: self.mods.insert(mod.checksum, mod.into())
insert(cache, manifest) ==
    [cache EXCEPT !.mods = {e \in @ : e.digest # manifest.checksum}
                              \cup {[digest |-> manifest.checksum, name |-> manifest.name]}]

\* remove that clears the whole map.
remove_ClearsAll(cache, checksum) == [cache EXCEPT !.mods = {}]

\* ModCache::remove: self.mods.remove(checksum)
remove(cache, checksum) ==
    [cache EXCEPT !.mods = {e \in @ : e.digest # checksum}]

\* launch.rs: "Try to load cache but don't fail if it doesn't exist": any
\* Err of from_disk becomes ModCache::new(HashMap::new()).
launch_load ==
    IF from_disk.ok THEN from_disk ELSE [ok |-> TRUE, cache |-> EmptyCache]

\* RepoPanelState::load_cache: the panel's local_repository and cache_state.
load_cache(cache) ==
    [local_repository |-> cache.repository,
     cache_state |-> IF cache.last_sync # "none" THEN "CacheLoaded" ELSE "NeedsSync"]

\* RepoPanelState::set_selected_profile with a profile: it returns nothing;
\* a cache that fails to load clears the panel's data.
set_selected_profile ==
    IF from_disk_or_empty.ok
    THEN [ok |-> TRUE, panel |-> load_cache(from_disk_or_empty.cache)]
    ELSE [ok |-> TRUE, panel |-> [local_repository |-> "none", cache_state |-> "NoCache"]]

\* A ModCache::new_empty() in memory; nimble-cache.json absent, unreadable,
\* undecodable or complete.
InitCache ==
    /\ IdleDl
    /\ IdleGui
    /\ IdleFn
    /\ IdleDiff
    /\ IdleRepo
    /\ IdleCache
    /\ IdleMain
    /\ IdleProbe
    /\ dirs = [m \in ModNames |-> FALSE]
    /\ files = [m \in ModNames |-> EmptyDir(m)]
    /\ srfFile = [m \in ModNames |-> NoSrf]
    /\ cacheFile \in {NoCache, UnreadableCache, CorruptCache} \cup DiskCaches
    /\ remoteFiles = [m \in ModNames |-> EmptyDir(m)]
    /\ remoteEncoding = [m \in ModNames |-> "json"]
    /\ pre = [dirs |-> dirs, files |-> files, srfFile |-> srfFile, cacheFile |-> cacheFile]
    /\ IdleRun

\* No to_disk is between File::create and the end of the write.
NoSavePending == ~(callOut.op = "to_disk" /\ callOut.res = "pending")

\* What the calls on the cache leave alone.
cacheCallFrame == <<dirs, files, srfFile, remoteVars, runVars, histVars, dlVars, callsButCache>>

\* cache.insert(manifest)
Insert ==
    /\ NoSavePending
    /\ \E manifest \in Manifests :
          /\ cacheObj' = insert(cacheObj, manifest)
          /\ lastOp' = [lastOp EXCEPT ![manifest.checksum] =
                                          [op |-> "insert", name |-> manifest.name]]
          /\ callOut' = [op |-> "insert", digest |-> manifest.checksum]
    /\ UNCHANGED <<cacheFile, cacheCallFrame>>

\* cache.remove(&digest)
Remove ==
    /\ NoSavePending
    /\ \E d \in 1..MaxDigest :
          /\ cacheObj' = remove(cacheObj, d)
          /\ lastOp' = [lastOp EXCEPT ![d] = [op |-> "remove", name |-> "none"]]
          /\ callOut' = [op |-> "remove", digest |-> d]
    /\ UNCHANGED <<cacheFile, cacheCallFrame>>

\* ModCache::from_disk_or_empty(base)
FromDiskOrEmpty ==
    /\ NoSavePending
    /\ callOut' = [op |-> "from_disk_or_empty", disk |-> cacheFile, res |-> from_disk_or_empty]
    /\ UNCHANGED <<cacheObj, lastOp, cacheFile, cacheCallFrame>>

\* launch(base, ..): its load of the cache.
LaunchLoad ==
    /\ NoSavePending
    /\ callOut' = [op |-> "launch", disk |-> cacheFile, res |-> launch_load]
    /\ UNCHANGED <<cacheObj, lastOp, cacheFile, cacheCallFrame>>

\* The GUI selects a profile whose base path is <base>.
SetSelectedProfile ==
    /\ NoSavePending
    /\ callOut' = [op |-> "set_selected_profile", disk |-> cacheFile,
                   res |-> set_selected_profile]
    /\ UNCHANGED <<cacheObj, lastOp, cacheFile, cacheCallFrame>>

\* to_disk, File::create(path): it fails and leaves the file alone
\* (Err(FileCreation)), or it creates the file or truncates the existing one
\* to length 0, which does not decode.
ToDiskCreate ==
    /\ NoSavePending
    /\ \/ /\ callOut' = [op |-> "to_disk", disk |-> cacheFile, res |-> "Err"]
          /\ UNCHANGED cacheFile
       \/ /\ cacheFile # UnreadableCache
          /\ cacheFile' = CorruptCache
          /\ callOut' = [op |-> "to_disk", disk |-> cacheFile, res |-> "pending"]
    /\ UNCHANGED <<cacheObj, lastOp, cacheCallFrame>>

\* to_disk, serde_json::to_writer(writer, &self): the whole cache is written
\* and Ok(()) returned, or the write fails part-way (Err(Serialization)) and
\* the file is left as far as it was written.
ToDiskWrite ==
    /\ ~NoSavePending
    /\ \/ /\ cacheFile' = cacheObj
          /\ callOut' = [callOut EXCEPT !.res = "Ok"]
       \/ /\ callOut' = [callOut EXCEPT !.res = "Err"]
          /\ UNCHANGED cacheFile
    /\ UNCHANGED <<cacheObj, lastOp, cacheCallFrame>>

NextCache ==
    \/ Insert
    \/ Remove
    \/ FromDiskOrEmpty
    \/ LaunchLoad
    \/ SetSelectedProfile
    \/ ToDiskCreate
    \/ ToDiskWrite

SpecCache == InitCache /\ [][NextCache]_vars

\* ------------------------------------- the partial probe of a mod.srf
\* The remote manifests: a name of some length in bytes, an aggregate
\* digest, per-file digests, in the JSON encoding (with or without a space
\* after the colons) or in the legacy encoding.
ProbeManifests ==
    [name_len : 1..MaxNameLen, checksum : {"A1", "A2"},
     files : UNION {[1..n -> {"F1", "F2"}] : n \in 0..MaxProbeFiles},
     encoding : {"json", "legacy"}, space : {0, 1}]

\* Byte offset of the top-level "Checksum" key in the JSON encoding
\* { "Name": string, "Checksum": hex32, "Files": [..] }: after the brace and
\* the Name field ("Name": + quoted name + comma).
ChecksumKeyAt(m) == 1 + (7 + m.space) + (m.name_len + 2) + 1

\* Length of the pattern "Checksum":" and of the quoted value.
PatternLen(m) == 11 + m.space + 1
ValueAt(m) == ChecksumKeyAt(m) + PatternLen(m)
ChecksumFieldEnd(m) == ValueAt(m) + DigestHexLen + 1

\* Byte offset of the "Checksum" key of the k-th entry of Files: after the
\* top-level field, "Files":[ and the entries before it, behind the entry's
\* Path and Length.
FileEntryLen(m) == 2 + (7 + m.space + 4) + (9 + m.space + 2) + PatternLen(m) + DigestHexLen + 1
FileChecksumKeyAt(m, k) ==
    ChecksumFieldEnd(m) + 1 + (8 + m.space + 1) + (k - 1) * (FileEntryLen(m) + 1)
        + 1 + (7 + m.space + 4) + (9 + m.space + 2)

\* serialize(m): the text, as its length, whether it starts with '{', and
\* the occurrences of the pattern in text order with the value each carries.
serialize(m) ==
    IF m.encoding = "legacy"
    THEN [brace |-> FALSE, len |-> 8 + m.name_len, hits |-> <<>>]
    ELSE [brace |-> TRUE,
          len |-> ChecksumFieldEnd(m) + 1 + (8 + m.space + 1)
                    + Len(m.files) * (FileEntryLen(m) + 1) + 2,
          hits |-> <<[at |-> ChecksumKeyAt(m), pattern |-> PatternLen(m),
                      value |-> m.checksum]>>
                   \o [k \in 1..Len(m.files) |->
                         [at |-> FileChecksumKeyAt(m, k), pattern |-> PatternLen(m),
                          value |-> m.files[k]]]]

\* download_srf_part with Range bytes=0-(n-1): the first n bytes, or the
\* whole body when the server does not honour the range.
download_srf_part(text, n, honoured) ==
    IF honoured /\ n < text.len THEN [text EXCEPT !.len = n] ELSE text

\* sync.rs extract_checksum on the received text: NoJsonStart unless it
\* starts with '{'; the first occurrence of the pattern; the value up to the
\* next quote, which must be there; 32 hex digits.
extract_checksum_text(text) ==
    LET found == {i \in 1..Len(text.hits) :
                     text.hits[i].at + text.hits[i].pattern <= text.len}
        first == CHOOSE i \in found : \A j \in found : i <= j
        h == text.hits[first]
    IN  IF ~text.brace THEN [ok |-> FALSE, err |-> "NoJsonStart"]
        ELSE IF found = {} THEN [ok |-> FALSE, err |-> "NoChecksumField"]
        ELSE IF h.at + h.pattern + DigestHexLen + 1 <= text.len
             THEN [ok |-> TRUE, checksum |-> h.value]
        ELSE [ok |-> FALSE, err |-> "NoChecksumField"]

\* download_remote_srf(.., partial = true) on manifest m: the partial
\* manifest with the extracted digest, else the full manifest.
download_remote_srf_probe(m, honoured) ==
    LET r == extract_checksum_text(download_srf_part(serialize(m), ProbeBytes, honoured))
    IN  IF r.ok
        THEN [partial |-> TRUE, checksum |-> r.checksum, full_fetch |-> FALSE]
        ELSE [partial |-> FALSE, checksum |-> m.checksum, full_fetch |-> TRUE]

InitProbe ==
    /\ QuietSync
    /\ IdleDl
    /\ IdleGui
    /\ IdleFn
    /\ IdleDiff
    /\ IdleRepo
    /\ IdleCache
    /\ IdleMain
    /\ probePc = "call"
    /\ remote_manifest \in ProbeManifests
    /\ rangeHonoured \in BOOLEAN
    /\ probeOut = NoProbe

\* download_remote_srf(agent, repo_url, mod_name, true)
ProbeCall ==
    /\ probePc = "call"
    /\ probeOut' = download_remote_srf_probe(remote_manifest, rangeHonoured)
    /\ probePc' = "done"
    /\ UNCHANGED <<syncVars, dlVars, callsButProbe, remote_manifest, rangeHonoured>>

NextProbe == ProbeCall

SpecProbe == InitProbe /\ [][NextProbe]_vars

\* ------------------------------------------- one call of make_repo_file_url
\* URLs and paths are sequences of characters; the characters that matter to
\* the normalization are the slash and the backslash, "a" stands for the
\* others.
UrlChars == {"/", "\\", "a"}
RECURSIVE SeqsUpTo(_, _)
SeqsUpTo(S, n) ==
    IF n = 0 THEN {<<>>}
    ELSE SeqsUpTo(S, n - 1) \cup
         {Append(s, c) : s \in {t \in SeqsUpTo(S, n - 1) : Len(t) = n - 1}, c \in S}
UrlStrings == SeqsUpTo(UrlChars, MaxUrlLen)

\* str::trim_end_matches(c) and str::trim_start_matches(c)
RECURSIVE trim_end_matches(_, _)
trim_end_matches(s, c) ==
    IF s # <<>> /\ s[Len(s)] = c
    THEN trim_end_matches(SubSeq(s, 1, Len(s) - 1), c)
    ELSE s
RECURSIVE trim_start_matches(_, _)
trim_start_matches(s, c) ==
    IF s # <<>> /\ s[1] = c
    THEN trim_start_matches(Tail(s), c)
    ELSE s

\* repository.rs normalize_repo_url
normalize_repo_url(url) == trim_end_matches(url, "/") \o <<"/">>

\* repository.rs make_repo_file_url
make_repo_file_url(base_url, file_path) ==
    normalize_repo_url(base_url) \o trim_start_matches(file_path, "/")

InitUrl ==
    /\ QuietSync
    /\ IdleDl
    /\ IdleGui
    /\ IdleDiff
    /\ IdleRepo
    /\ IdleCache
    /\ IdleMain
    /\ IdleProbe
    /\ fnPc = "call"
    /\ \E b, p \in UrlStrings : fnArgs = [fn |-> "make_repo_file_url", base_url |-> b, file_path |-> p]
    /\ fnOut = "none"

MakeRepoFileUrlCall ==
    /\ fnPc = "call"
    /\ fnOut' = make_repo_file_url(fnArgs.base_url, fnArgs.file_path)
    /\ fnPc' = "done"
    /\ UNCHANGED <<syncVars, dlVars, callsButFn, fnArgs>>

NextUrl == MakeRepoFileUrlCall

SpecUrl == InitUrl /\ [][NextUrl]_vars

\* ------------- one call of convert_host_base_path_to_proton_base_path
\* A host path is its root flag and its normal components; the names that
\* matter are drive_c, a name that differs from it in case only, and any
\* other name.
PathNames == {"drive_c", "Drive_C", "home"}
HostPaths == {[has_root |-> r, components |-> c] :
                 r \in BOOLEAN, c \in SeqsUpTo(PathNames, MaxPathLen)}

\* Path::ancestors: the path itself, then its parent, and so on up to the
\* root (or the empty path).
ancestors(p) ==
    [k \in 1..(Len(p.components) + 1) |->
        [has_root |-> p.has_root,
         components |-> SubSeq(p.components, 1, Len(p.components) + 1 - k)]]

\* Path::ends_with(child) for a child of one component: the last component
\* equals it.
ends_with(p, child) ==
    p.components # <<>> /\ p.components[Len(p.components)] = child

\* The search for drive_c from the root downwards: the farthest ancestor of
\* that name.
find_drive_c_Farthest(anc) ==
    IF \E k \in 1..Len(anc) : ends_with(anc[k], "drive_c")
    THEN CHOOSE k \in 1..Len(anc) :
            /\ ends_with(anc[k], "drive_c")
            /\ \A j \in (k + 1)..Len(anc) : ~ends_with(anc[j], "drive_c")
    ELSE 0

\* Iterator::find: the index of the first element that satisfies the test,
\* 0 when there is none.
find_drive_c(anc) ==
    IF \E k \in 1..Len(anc) : ends_with(anc[k], "drive_c")
    THEN CHOOSE k \in 1..Len(anc) :
            /\ ends_with(anc[k], "drive_c")
            /\ \A j \in 1..(k - 1) : ~ends_with(anc[j], "drive_c")
    ELSE 0

\* Path::strip_prefix(base) for a base that is a prefix of the path.
strip_prefix(p, base) ==
    SubSeq(p.components, Len(base.components) + 1, Len(p.components))

\* launch.rs convert_host_base_path_to_proton_base_path, #[cfg(not(windows))]
convert_host_base_path_to_proton_base_path(host_base_path) ==
    LET anc == ancestors(host_base_path)
        k == find_drive_c(anc)
    IN  IF k = 0
        THEN [ok |-> FALSE, err |-> "FailedToFindDriveC"]
        ELSE [ok |-> TRUE,
              path |-> <<"c:/">> \o strip_prefix(host_base_path, anc[k])]

InitProton ==
    /\ QuietSync
    /\ IdleDl
    /\ IdleGui
    /\ IdleDiff
    /\ IdleRepo
    /\ IdleCache
    /\ IdleMain
    /\ IdleProbe
    /\ fnPc = "call"
    /\ \E p \in HostPaths :
          fnArgs = [fn |-> "convert_host_base_path_to_proton_base_path",
                    host_base_path |-> p]
    /\ fnOut = "none"

ConvertHostBasePathCall ==
    /\ fnPc = "call"
    /\ fnOut' = convert_host_base_path_to_proton_base_path(fnArgs.host_base_path)
    /\ fnPc' = "done"
    /\ UNCHANGED <<syncVars, dlVars, callsButFn, fnArgs>>

NextProton == ConvertHostBasePathCall

SpecProton == InitProton /\ [][NextProton]_vars

\* ------------------------- Repository to JSON and back (repository.rs)
\* JSON values, as serde_json reads and writes them.
JString(s) == [t |-> "string", v |-> s]
JNumber(n) == [t |-> "number", v |-> n]
JBool(b) == [t |-> "bool", v |-> b]
JNull == [t |-> "null"]
JArray(s) == [t |-> "array", v |-> s]
JObject(r) == [t |-> "object", v |-> r]

\* Md5Digest as text: 32 hexadecimal digits that spell the digest.
Md5Digest_to_string(d) == [len |-> 32, hex |-> TRUE, digits |-> d]

\* Md5Digest::new: the digest a text of 32 hexadecimal digits spells.
Md5Digest_new(s) ==
    IF s.len = 32 /\ s.hex THEN [ok |-> TRUE, value |-> s.digits] ELSE [ok |-> FALSE]

\* repository.rs deserialize_checksum: a string, cut to its first 32
\* characters, of 32 hexadecimal digits.
deserialize_checksum(j) ==
    IF j.t # "string" THEN [ok |-> FALSE]
    ELSE LET checksum_str == IF j.v.len > 32 THEN [j.v EXCEPT !.len = 32] ELSE j.v
         IN  IF checksum_str.len # 32 \/ ~checksum_str.hex THEN [ok |-> FALSE]
             ELSE Md5Digest_new(checksum_str)

\* The Deserialize of Md5Digest, used for Mod.checksum.
deserialize_md5(j) ==
    IF j.t # "string" THEN [ok |-> FALSE] ELSE Md5Digest_new(j.v)

\* deserialize_number_from_string that takes the number from a string only.
deserialize_number_from_string_StringOnly(j) ==
    IF j.t = "string" /\ "numeral" \in DOMAIN j.v /\ j.v.numeral \in 0..65535
    THEN [ok |-> TRUE, value |-> j.v.numeral]
    ELSE [ok |-> FALSE]

\* repository.rs deserialize_number_from_string, for T = u16: a string that
\* parses as a u16, or a number that is one.
deserialize_number_from_string(j) ==
    IF j.t = "string"
    THEN IF "numeral" \in DOMAIN j.v /\ j.v.numeral \in 0..65535
         THEN [ok |-> TRUE, value |-> j.v.numeral]
         ELSE [ok |-> FALSE]
    ELSE IF j.t = "number" /\ j.v \in 0..65535
    THEN [ok |-> TRUE, value |-> j.v]
    ELSE [ok |-> FALSE]

HasKeys(j, keys) == j.t = "object" /\ keys \subseteq DOMAIN j.v

\* #[derive(Serialize)] of Mod, camelCase with checksum renamed checkSum.
serialize_mod(m) ==
    JObject([modName |-> JString(m.mod_name),
             checkSum |-> JString(Md5Digest_to_string(m.checksum)),
             enabled |-> JBool(m.enabled)])

\* #[derive(Deserialize)] of Mod
deserialize_mod(j) ==
    IF /\ HasKeys(j, {"modName", "checkSum", "enabled"})
       /\ j.v.modName.t = "string"
       /\ deserialize_md5(j.v.checkSum).ok
       /\ j.v.enabled.t = "bool"
    THEN [ok |-> TRUE,
          value |-> [mod_name |-> j.v.modName.v,
                     checksum |-> deserialize_md5(j.v.checkSum).value,
                     enabled |-> j.v.enabled.v]]
    ELSE [ok |-> FALSE]

\* #[derive(Serialize)] of Server, camelCase
serialize_server(s) ==
    JObject([name |-> JString(s.name),
             address |-> JString(s.address),
             port |-> JNumber(s.port),
             password |-> JString(s.password),
             battleEye |-> JBool(s.battle_eye)])

\* #[derive(Deserialize)] of Server, the port through
\* deserialize_number_from_string
deserialize_server(j) ==
    IF /\ HasKeys(j, {"name", "address", "port", "password", "battleEye"})
       /\ j.v.name.t = "string"
       /\ j.v.address.t = "string"
       /\ deserialize_number_from_string(j.v.port).ok
       /\ j.v.password.t = "string"
       /\ j.v.battleEye.t = "bool"
    THEN [ok |-> TRUE,
          value |-> [name |-> j.v.name.v,
                     address |-> j.v.address.v,
                     port |-> deserialize_number_from_string(j.v.port).value,
                     password |-> j.v.password.v,
                     battle_eye |-> j.v.battleEye.v]]
    ELSE [ok |-> FALSE]

\* Option<BasicAuth>: null for None.
NoAuth == [none |-> TRUE]
serialize_auth(a) ==
    IF a = NoAuth THEN JNull
    ELSE JObject([username |-> JString(a.username), password |-> JString(a.password)])

deserialize_auth(j) ==
    IF j.t = "null" THEN [ok |-> TRUE, value |-> NoAuth]
    ELSE IF /\ HasKeys(j, {"username", "password"})
            /\ j.v.username.t = "string"
            /\ j.v.password.t = "string"
    THEN [ok |-> TRUE,
          value |-> [username |-> j.v.username.v, password |-> j.v.password.v]]
    ELSE [ok |-> FALSE]

\* Vec<T>: an array, element by element.
serialize_vec(ser(_), s) == JArray([k \in 1..Len(s) |-> ser(s[k])])

deserialize_vec(de(_), j) ==
    IF j.t = "array" /\ \A k \in 1..Len(j.v) : de(j.v[k]).ok
    THEN [ok |-> TRUE, value |-> [k \in 1..Len(j.v) |-> de(j.v[k]).value]]
    ELSE [ok |-> FALSE]

\* #[derive(Serialize)] of Repository, camelCase: serde_json::to_string_pretty
serialize_repository(r) ==
    JObject([repoName |-> JString(r.repo_name),
             checksum |-> JString(Md5Digest_to_string(r.checksum)),
             requiredMods |-> serialize_vec(serialize_mod, r.required_mods),
             optionalMods |-> serialize_vec(serialize_mod, r.optional_mods),
             clientParameters |-> JString(r.client_parameters),
             repoBasicAuthentication |-> serialize_auth(r.repo_basic_authentication),
             version |-> JString(r.version),
             servers |-> serialize_vec(serialize_server, r.servers)])

\* #[derive(Deserialize)] of Repository: serde_json::from_str.  An absent
\* repoBasicAuthentication reads as None.
deserialize_repository(j) ==
    IF /\ HasKeys(j, {"repoName", "checksum", "requiredMods", "optionalMods",
                      "clientParameters", "version", "servers"})
       /\ j.v.repoName.t = "string"
       /\ deserialize_checksum(j.v.checksum).ok
       /\ deserialize_vec(deserialize_mod, j.v.requiredMods).ok
       /\ deserialize_vec(deserialize_mod, j.v.optionalMods).ok
       /\ j.v.clientParameters.t = "string"
       /\ ("repoBasicAuthentication" \in DOMAIN j.v
              => deserialize_auth(j.v.repoBasicAuthentication).ok)
       /\ j.v.version.t = "string"
       /\ deserialize_vec(deserialize_server, j.v.servers).ok
    THEN [ok |-> TRUE,
          value |-> [repo_name |-> j.v.repoName.v,
                     checksum |-> deserialize_checksum(j.v.checksum).value,
                     required_mods |->
                         deserialize_vec(deserialize_mod, j.v.requiredMods).value,
                     optional_mods |->
                         deserialize_vec(deserialize_mod, j.v.optionalMods).value,
                     client_parameters |-> j.v.clientParameters.v,
                     repo_basic_authentication |->
                         IF "repoBasicAuthentication" \in DOMAIN j.v
                         THEN deserialize_auth(j.v.repoBasicAuthentication).value
                         ELSE NoAuth,
                     version |-> j.v.version.v,
                     servers |->
                         deserialize_vec(deserialize_server, j.v.servers).value]]
    ELSE [ok |-> FALSE]

\* The repositories of specification SpecJson: Md5Digest::default (0) or
\* another digest, mods of either flag, servers on the ends and inside of
\* the u16 range.
JsonMods == [mod_name : ModNames, checksum : {0, 1}, enabled : BOOLEAN]
JsonModLists == UNION {[1..n -> JsonMods] : n \in 0..MaxRepoMods}
JsonServers ==
    [name : {"Test Server"}, address : {"127.0.0.1"}, port : {0, 2302, 65535},
     password : {"password"}, battle_eye : {TRUE}]
JsonServerLists == UNION {[1..n -> JsonServers] : n \in 0..MaxServers}
Repositories ==
    [repo_name : {"", "Test Repository"},
     checksum : {0},
     required_mods : JsonModLists,
     optional_mods : {<<>>, <<[mod_name |-> "@b", checksum |-> 1, enabled |-> FALSE]>>},
     client_parameters : {"-noPause -noSplash -skipIntro"},
     repo_basic_authentication : {NoAuth, [username |-> "u", password |-> "p"]},
     version : {"1.0.0"},
     servers : JsonServerLists]

InitJson ==
    /\ QuietSync
    /\ IdleDl
    /\ IdleGui
    /\ IdleDiff
    /\ IdleRepo
    /\ IdleCache
    /\ IdleMain
    /\ IdleProbe
    /\ fnPc = "call"
    /\ \E r \in Repositories : fnArgs = [fn |-> "to_string_pretty", repo |-> r]
    /\ fnOut = "none"

\* let json = serde_json::to_string_pretty(&repo)
ToStringPretty ==
    /\ fnPc = "call"
    /\ fnArgs.fn = "to_string_pretty"
    /\ fnOut' = serialize_repository(fnArgs.repo)
    /\ fnPc' = "serialized"
    /\ UNCHANGED <<syncVars, dlVars, callsButFn, fnArgs>>

\* let deserialized: Repository = serde_json::from_str(&json)
FromStr ==
    /\ fnPc = "serialized"
    /\ fnOut' = deserialize_repository(fnOut)
    /\ fnPc' = "done"
    /\ UNCHANGED <<syncVars, dlVars, callsButFn, fnArgs>>

NextJson == ToStringPretty \/ FromStr

SpecJson == InitJson /\ [][NextJson]_vars

\* ------------------ where the files a manifest names are written (paths)
\* A manifest path is absolute or not, and has components: a file or
\* directory name, or "..".
ManifestPaths ==
    {[absolute |-> a, components |-> c] :
        a \in BOOLEAN, c \in SeqsUpTo({"..", "f"}, MaxPathLen) \ {<<>>}}

\* The base directory of the sync, two levels below the root.
base_path == [absolute |-> TRUE, components |-> <<"home", "base">>]

\* Path::join: an absolute argument replaces the path.
join(p, q) ==
    IF q.absolute THEN q
    ELSE [absolute |-> p.absolute, components |-> p.components \o q.components]

\* diff_mod: DownloadCommand.file is
\* make_repo_file_url(normalize_repo_url(mod_name), path): the mod name, one
\* slash, and the path without its leading slashes.
download_command_file(mod_name, path) ==
    [absolute |-> FALSE, components |-> <<mod_name>> \o path.components]

\* execute_command_list: file_path = local_base.join(Path::new(&command.file))
download_file_path(mod_name, path) ==
    join(base_path, download_command_file(mod_name, path))

\* remove_leftover_files: path = base_path.join(mod_name).join(cmd.file)
leftover_file_path(mod_name, path) ==
    join(join(base_path, [absolute |-> FALSE, components |-> <<mod_name>>]), path)

\* The file the operating system opens for a path: ".." steps to the parent
\* directory, and stays at the root.
RECURSIVE resolve(_, _)
resolve(done, rest) ==
    IF rest = <<>> THEN done
    ELSE IF Head(rest) = ".."
    THEN resolve(IF done = <<>> THEN <<>> ELSE SubSeq(done, 1, Len(done) - 1), Tail(rest))
    ELSE resolve(Append(done, Head(rest)), Tail(rest))

InitPaths ==
    /\ QuietSync
    /\ IdleDl
    /\ IdleGui
    /\ IdleDiff
    /\ IdleRepo
    /\ IdleCache
    /\ IdleMain
    /\ IdleProbe
    /\ fnPc = "call"
    /\ \E p \in ManifestPaths : fnArgs = [fn |-> "write_file", mod_name |-> "@a", path |-> p]
    /\ fnOut = "none"

\* execute_command_list downloads the file the remote manifest lists:
\* create_dir_all of the parent, File::create(&file_path), io::copy.
CreateDownloadedFile ==
    /\ fnPc = "call"
    /\ fnArgs.fn = "write_file"
    /\ fnOut' = [op |-> "create",
                 at |-> resolve(<<>>, download_file_path(fnArgs.mod_name,
                                                         fnArgs.path).components)]
    /\ fnPc' = "done"
    /\ UNCHANGED <<syncVars, dlVars, callsButFn, fnArgs>>

\* remove_leftover_files removes the file the local mod.srf lists (the
\* remote manifest of an earlier sync, as save_srf_files wrote it):
\* std::fs::remove_file(&path).
RemoveLeftoverFile ==
    /\ fnPc = "call"
    /\ fnArgs.fn = "write_file"
    /\ fnOut' = [op |-> "remove",
                 at |-> resolve(<<>>, leftover_file_path(fnArgs.mod_name,
                                                         fnArgs.path).components)]
    /\ fnPc' = "done"
    /\ UNCHANGED <<syncVars, dlVars, callsButFn, fnArgs>>

NextPaths == CreateDownloadedFile \/ RemoveLeftoverFile

SpecPaths == InitPaths /\ [][NextPaths]_vars

\* ------------------------------------------------------------------
\* The GUI and its sync threads (specification SpecGui)
\* ------------------------------------------------------------------
\* A repository is connected and a profile with a base path is selected.
\* A frame of NimbleGui::update shows the panel, where a click acts, and only
\* then receives what the channel holds; what a thread sends later waits for
\* the next frame. Clicks, thread steps and receipts therefore interleave
\* freely, one message at a time.

\* The messages that end a sync.
TerminalMessages == {"SyncComplete", "SyncCancelled", "SyncError"}

\* sender.send(..) of a message by sync thread t (0: not a sync thread).
send(ch, kind, t) == Append(ch, [kind |-> kind, thread |-> t])

\* The arm of the match of NimbleGui::update for a message: the next GuiState.
handle_message(state, kind) ==
    CASE kind \in {"ConfigChanged", "CancelSync"} -> state
      [] kind = "ConnectionStarted" -> "Connecting"
      [] kind = "SyncProgress" -> "Syncing"
      [] kind = "LaunchStarted" -> "Launching"
      [] kind = "GenSrfProgress" -> "GeneratingSRF"
      [] kind = "ScanningStatus" -> "Scanning"
      [] OTHER -> "Idle"

\* RepoPanel::show puts show_remote_operations, with the Sync Mods button,
\* under every GuiState but Scanning and Syncing.
SyncButtonShown == gui_state \notin {"Scanning", "Syncing"}

\* RepoPanel::show puts show_syncing_ui, with the Cancel button, under Syncing.
CancelButtonShown == gui_state = "Syncing"

\* The sync threads that were spawned and have not sent their last message.
RunningSyncs == {t \in 1..MaxSyncThreads : syncThreads[t].pc \notin {"none", "done"}}

InitGui ==
    /\ QuietSync
    /\ IdleDl
    /\ IdleDiff
    /\ IdleRepo
    /\ IdleCache
    /\ IdleMain
    /\ IdleProbe
    /\ IdleFn
    /\ IdleGui

\* show_sync_button, clicked: the shared flag is cleared and a thread spawned.
ClickSyncMods ==
    /\ SyncButtonShown
    /\ \E t \in 1..MaxSyncThreads :
        /\ syncThreads[t].pc = "none"
        /\ \A u \in 1..(t - 1) : syncThreads[u].pc # "none"
        /\ syncThreads' = [syncThreads EXCEPT ![t].pc = "spawned"]
    /\ sync_cancel' = FALSE
    /\ UNCHANGED <<syncVars, dlVars, callsButGui, gui_state, channel, launchPc>>

\* show_syncing_ui, Cancel clicked.
ClickCancel ==
    /\ CancelButtonShown
    /\ sync_cancel' = TRUE
    /\ UNCHANGED <<syncVars, dlVars, callsButGui, gui_state, channel, syncThreads,
                   launchPc>>

\* show_launch_button, clicked: LaunchStarted is sent and a thread spawned.
ClickLaunchGame ==
    /\ launchPc = "none"
    /\ channel' = send(channel, "LaunchStarted", 0)
    /\ launchPc' = "running"
    /\ UNCHANGED <<syncVars, dlVars, callsButGui, gui_state, sync_cancel, syncThreads>>

\* The launch thread: launch returned, one message says how.
LaunchThreadSends ==
    /\ launchPc = "running"
    /\ \E kind \in {"LaunchComplete", "LaunchError"} :
        channel' = send(channel, kind, 0)
    /\ launchPc' = "done"
    /\ UNCHANGED <<syncVars, dlVars, callsButGui, gui_state, sync_cancel, syncThreads>>

\* Sync thread t sends a message of the given kind and moves on.
ThreadSends(t, kind, next) ==
    /\ channel' = send(channel, kind, t)
    /\ syncThreads' = [syncThreads EXCEPT ![t].pc = next,
                                          ![t].sent = Append(@, kind)]

\* sync_with_context begins: its first statement sends ScanningStatus.
SyncSendsScanningStatus(t) ==
    /\ syncThreads[t].pc = "spawned"
    /\ ThreadSends(t, "ScanningStatus", "syncing")
    /\ UNCHANGED <<syncVars, dlVars, callsButGui, gui_state, sync_cancel, launchPc>>

\* execute_command_list sends SyncProgress for a command and for each chunk
\* it downloaded.
SyncSendsProgress(t) ==
    /\ syncThreads[t].pc = "syncing"
    /\ Cardinality({i \in 1..Len(syncThreads[t].sent) :
                      syncThreads[t].sent[i] = "SyncProgress"}) < MaxProgress
    /\ ThreadSends(t, "SyncProgress", "syncing")
    /\ UNCHANGED <<syncVars, dlVars, callsButGui, gui_state, sync_cancel, launchPc>>

\* sync_with_context returns: Cancelled where it read the flag set, and Ok or
\* another error otherwise.
SyncReturns(t) ==
    /\ syncThreads[t].pc = "syncing"
    /\ \E r \in {"Ok", "Err", "Cancelled"} :
        /\ r = "Cancelled" => sync_cancel
        /\ syncThreads' = [syncThreads EXCEPT ![t].pc = "returned", ![t].result = r]
    /\ UNCHANGED <<syncVars, dlVars, callsButGui, gui_state, channel, sync_cancel,
                   launchPc>>

\* The match on what sync_with_context returned: the message to send.
terminal_message_ErrorForCancelled(r) ==
    IF r = "Ok" THEN "SyncComplete" ELSE "SyncError"

terminal_message(r) ==
    CASE r = "Ok" -> "SyncComplete"
      [] r = "Cancelled" -> "SyncCancelled"
      [] OTHER -> "SyncError"

\* The last statement of the thread: the match sends its message.
SyncSendsTerminal(t) ==
    /\ syncThreads[t].pc = "returned"
    /\ ThreadSends(t, terminal_message(syncThreads[t].result), "done")
    /\ UNCHANGED <<syncVars, dlVars, callsButGui, gui_state, sync_cancel, launchPc>>

\* One turn of the receive loop of NimbleGui::update.
ReceiveMessage ==
    /\ channel # <<>>
    /\ gui_state' = handle_message(gui_state, Head(channel).kind)
    /\ channel' = Tail(channel)
    /\ UNCHANGED <<syncVars, dlVars, callsButGui, sync_cancel, syncThreads, launchPc>>

NextGui ==
    \/ ClickSyncMods
    \/ ClickCancel
    \/ ClickLaunchGame
    \/ LaunchThreadSends
    \/ \E t \in 1..MaxSyncThreads : SyncSendsScanningStatus(t)
    \/ \E t \in 1..MaxSyncThreads : SyncSendsProgress(t)
    \/ \E t \in 1..MaxSyncThreads : SyncReturns(t)
    \/ \E t \in 1..MaxSyncThreads : SyncSendsTerminal(t)
    \/ ReceiveMessage

SpecGui == InitGui /\ [][NextGui]_vars

\* =================================================================
\* Properties of sync_with_context (specification Spec)
\* =================================================================
\* A run has returned.
Returned == pc = "idle" /\ runs > 0

\* The mod.srf files that existed when the run started listed their
\* directories accurately.
PreAccurate ==
    \A m \in ModNames :
        pre.srfFile[m] = NoSrf \/ pre.srfFile[m] = scan_mod(m, pre.files[m])

\* Every file of the remote manifest of m is on disk with the remote digest.
ModInstalled(m) ==
    \A e \in RemoteSrf(m).files :
        /\ files[m][e.path] # NoFile
        /\ Md5OfFile(files[m][e.path]) = e.checksum

\* C1: a sync without force and dry run that returns Ok, started from
\* accurate (or absent) mod.srf files, leaves every file of every required
\* mod's remote manifest on disk with the manifest's digest, whatever the
\* outcome of the partial-manifest probes.
C1_OkSyncInstallsAll ==
    (Returned /\ result = "Ok" /\ ~dry_run /\ ~force_sync /\ PreAccurate)
        => \A m \in ModNames : ModInstalled(m)

\* C2 (as claimed): a run that returns Cancelled, with any flags, leaves
\* nimble-cache.json with the presence and content it had before the run.
C2_CancelledKeepsCacheAnyFlags ==
    (Returned /\ result = "Cancelled")
        => cacheFile = pre.cacheFile /\ ~events.cacheWritten /\ ~events.cacheDeleted

\* C2 (amended): a run that returns Cancelled never writes nimble-cache.json;
\* without force the file is exactly as before the run, with force it is as
\* before or deleted (the forced removal at the start of the run).
C2_CancelledNeverWritesCache ==
    (Returned /\ result = "Cancelled")
        => /\ ~events.cacheWritten
           /\ ~force_sync => cacheFile = pre.cacheFile /\ ~events.cacheDeleted
           /\ force_sync => cacheFile \in {pre.cacheFile, NoCache}

\* C2 witness: a plain sync with a cache on disk is cancelled after it has
\* downloaded a file.
C2_Witness ==
    /\ Returned /\ result = "Cancelled"
    /\ ~force_sync /\ ~dry_run
    /\ pre.cacheFile # NoCache
    /\ events.downloaded # {}

\* C3: a cancel flag set during the run (before the cache is committed)
\* makes the run return Cancelled and write no cache, also when nothing is
\* downloaded and in a dry run.  (Runs that fail with an error are left out.)
C3_CancelAlwaysHonoured ==
    (Returned /\ events.cancelSet /\ result # "Err")
        => result = "Cancelled" /\ ~events.cacheWritten

\* C4: after a sync (no dry run) returned Ok, the persisted cache maps the
\* remote digest of every mod that needed downloads to the mod's name.
C4_CacheHoldsDownloadedMods ==
    (Returned /\ result = "Ok" /\ ~dry_run)
        => \A m \in ModNames :
              (\E t \in events.downloadTasks : t[1] = m)
                 => /\ cacheFile # NoCache
                    /\ [digest |-> RemoteSrf(m).checksum, name |-> m] \in cacheFile.mods

\* C5: after a sync (no dry run) returned Ok, mod.srf of every mod for which
\* diff_mod gave a Download or a Delete task holds the remote manifest.
C5_SrfWrittenForWorkedMods ==
    (Returned /\ result = "Ok" /\ ~dry_run)
        => \A m \in ModNames :
              (\E t \in events.downloadTasks \cup events.deleteTasks : t[1] = m)
                 => /\ srfFile[m] # NoSrf
                    /\ srfFile[m].checksum = RemoteSrf(m).checksum

\* Every entry of the cache file has the digest of its directory.
CacheAccurate(c, d, f) ==
    c # NoCache =>
        \A e \in c.mods : d[e.name] /\ e.digest = scan_mod(e.name, f[e.name]).checksum

\* C6: after a sync (no dry run) that returned Ok and started with an
\* accurate cache, every entry of the persisted cache has the aggregate
\* digest of its directory.
C6_CacheEntriesMatchDisk ==
    (Returned /\ result = "Ok" /\ ~dry_run
       /\ CacheAccurate(pre.cacheFile, pre.dirs, pre.files))
        => CacheAccurate(cacheFile, dirs, files)

\* C7: a sync that immediately follows a sync that returned Ok (no dry run),
\* the remote being unchanged and publishing JSON manifests, finds every mod
\* UpToDate: no full manifest fetch, no Download task, no Delete task.
C7_SecondSyncIsNoOp ==
    (prev.result = "Ok" /\ ~prev.dry_run
       /\ \A m \in ModNames : remoteEncoding[m] = "json")
        => /\ events.fullFetched = {}
           /\ events.downloadTasks = {}
           /\ events.deleteTasks = {}
           /\ pc \in {"dry_check", "dl_check"} => events.upToDate = ModNames

\* C8: without force, a mod whose partial-manifest checksum extraction
\* failed is still diffed against its full manifest in the same run.
C8_ExtractionFailureFallsBack ==
    (pc = "dry_check" /\ ~force_sync)
        => \A m \in ModNames : ~extract_checksum(m).ok => m \in events.diffed

\* C9: a dry run deletes nothing, downloads nothing and writes no cache:
\* every file that existed before the run is still there with its content.
C9_DryRunChangesNothing ==
    (runs > 0 /\ dry_run)
        => /\ events.deleted = {} /\ events.downloaded = {} /\ ~events.cacheWritten
           /\ \A m \in ModNames : \A p \in PathsOf(m) :
                 pre.files[m][p] # NoFile => files[m][p] = pre.files[m][p]


\* =================================================================
\* Properties of the parallel downloader (specification SpecDl)
\* =================================================================
\* C10: execute_command_list of download.rs always returns: as long as it
\* has not returned, one of its threads can take a step, whenever the
\* cancel flag is set.
C10_DownloaderAlwaysReturns ==
    mpc = "returned" \/ ENABLED DlThreads

\* The results of the tasks of the list, as far as they have ended.
TaskResults == {taskResult[t] : t \in 1..commands}

\* C11: when execute_command_list returns, the result is Cancelled if some
\* task's result was Cancelled; else, if some task failed, it is the first
\* collected error; it is Ok only if every task of the list completed with
\* Ok.
C11_BatchResultAggregation ==
    mpc = "returned" =>
        /\ CancelledRes \in TaskResults => dlResult = CancelledRes
        /\ (CancelledRes \notin TaskResults /\ \E r \in TaskResults : r.kind = "Http")
              => dlResult.kind = "Http" /\ dlResult = errors[1]
        /\ dlResult = OkRes => \A t \in 1..commands : taskResult[t] = OkRes

\* C11 witness: the batch returned Cancelled although the first collected
\* error was a transport failure.
C11_Witness ==
    /\ mpc = "returned"
    /\ dlResult = CancelledRes
    /\ Len(errors) = 2
    /\ errors[1].kind = "Http"

\* C12: a task whose response body fails to read before the end of the
\* stream ends with an error, and the incomplete body is not placed at its
\* destination.
C12_ReadFailureIsReported ==
    \A t \in readFails :
        /\ dest[t] # "truncated"
        /\ taskResult[t] # OkRes

\* C13: at every instant the destination of a task is as it was before the
\* task or holds the complete downloaded content (stated for the tasks whose
\* body is read without failure).
C13_PlacementIsAtomic ==
    \A t \in (1..commands) \ readFails : dest[t] \in {"old", "complete"}

C15_AgentsExclusive ==
    /\ \A w1, w2 \in Workers :
          (w1 # w2 /\ wagent[w1] # 0) => wagent[w1] # wagent[w2]
    /\ \A w \in Workers : \A k \in 1..Len(agent_pool) : agent_pool[k] # wagent[w]
    /\ \A k1, k2 \in 1..Len(agent_pool) : k1 # k2 => agent_pool[k1] # agent_pool[k2]
    /\ \A w \in Workers :
          wagent[w] # 0 <=> wpc[w] \in {"download", "create", "copy", "release"}
    /\ Len(agent_pool) + Cardinality({w \in Workers : wagent[w] # 0})
          = MAX_CONCURRENT_DOWNLOADS

\* C15 witness: a task has failed or was cancelled and its agent is back in
\* the pool, while another worker holds an agent.
C15_Witness ==
    /\ \E t \in 1..commands : taskResult[t].kind \in {"Http", "Cancelled"}
    /\ \E w \in Workers : wagent[w] # 0
    /\ Len(agent_pool) = MAX_CONCURRENT_DOWNLOADS - 1

\* =================================================================
\* Properties of diff_mod (specification SpecDiff)
\* =================================================================
\* diff_mod has returned; the local manifest it compared is the mod.srf now
\* on disk.
DiffDone == diffPc = "done"
DiffLocal == srfFile["@a"]
DiffRemote == RemoteSrf("@a")
DigestsAndCountsMatch ==
    /\ DiffLocal.checksum = DiffRemote.checksum
    /\ Cardinality(DiffLocal.files) = Cardinality(DiffRemote.files)

\* C16 (as claimed): diff_mod returns two empty lists if and only if the
\* aggregate digests are equal, the file counts are equal and the mod
\* directory exists.
C16_EmptyIffDigestsMatch ==
    DiffDone =>
        (diffOut = NoDiff <=> (DigestsAndCountsMatch /\ dirs["@a"]))

\* C16 (amended): if the aggregate digests and the file counts are equal,
\* diff_mod returns two empty lists (the mod directory always exists at that
\* point: diff_mod has created it).
C16_DigestsMatchGivesEmpty ==
    DiffDone =>
        /\ dirs["@a"]
        /\ DigestsAndCountsMatch => diffOut = NoDiff

\* C16 witness: the manifests agree on a file that is not on disk; diff_mod
\* trusts them and returns two empty lists.
C16_Witness ==
    /\ DiffDone
    /\ DigestsAndCountsMatch
    /\ \E e \in DiffRemote.files : files["@a"][e.path] = NoFile
    /\ diffOut = NoDiff

\* C17: a remote entry gets a Download task exactly when the local manifest
\* has no entry for its path or one with another digest, and the file on
\* disk at the entry's relative path does not hash to the remote digest.
C17_DownloadExactlyWhenNeeded ==
    DiffDone =>
        \A e \in DiffRemote.files :
            e.path \in diffOut.downloads
              <=> /\ \A l \in DiffLocal.files : l.path = e.path => l.checksum # e.checksum
                  /\ ~(/\ files["@a"][e.path] # NoFile
                       /\ Md5OfFile(files["@a"][e.path]) = e.checksum)

\* C18: the Delete tasks are exactly the local entries whose normalized,
\* lowercased path equals no remote entry's normalized, lowercased path.
C18_DeletesByNormalizedPath ==
    DiffDone =>
        diffOut.deletes =
            {l.path : l \in {k \in DiffLocal.files :
                \A r \in DiffRemote.files :
                    normalize_path(r.path) # normalize_path(k.path)}}

\* C19: no file is the target of a Download task and of a Delete task,
\* paths compared after normalization and lowercasing.
C19_NoFileDownloadedAndDeleted ==
    DiffDone =>
        \A p \in diffOut.downloads : \A q \in diffOut.deletes :
            normalize_path(p) # normalize_path(q)

\* =================================================================
\* Orphan deletion in sync_with_context (specification Spec)
\* =================================================================
\* C20: whatever force is, a sync deletes only files that were listed in the
\* mod's mod.srf as it stood when the sync started; when there was no
\* mod.srf it deletes nothing of that mod.
C20_DeletesOnlyListedFiles ==
    \A d \in events.deleted :
        /\ pre.srfFile[d[1]] # NoSrf
        /\ d[2] \in {e.path : e \in pre.srfFile[d[1]].files}

\* =================================================================
\* Properties of quick_diff (specification SpecDiff)
\* =================================================================
\* quick_diff has returned.
QuickDone == diffPc = "quick_done"

\* C21: quick_diff returns NeedsFull when mod.srf is absent; when mod.srf
\* holds a manifest it returns UpToDate if that manifest's aggregate digest
\* equals the digest of the partial remote manifest and NeedsFull if the two
\* differ; the directories, files, mod.srf and the cache file are as before.
C21_QuickDiffComparesDigests ==
    QuickDone =>
        /\ pre.srfFile["@a"] = NoSrf => quickOut = "NeedsFull"
        /\ pre.srfFile["@a"] \notin {NoSrf, CorruptSrf} =>
              /\ pre.srfFile["@a"].checksum = RemoteSrf("@a").checksum
                    => quickOut = "UpToDate"
              /\ pre.srfFile["@a"].checksum # RemoteSrf("@a").checksum
                    => quickOut = "NeedsFull"
        /\ dirs = pre.dirs /\ files = pre.files
        /\ srfFile = pre.srfFile /\ cacheFile = pre.cacheFile

\* quick_diff said UpToDate for a directory that differs from the remote
\* one: only the digests of the two manifests were compared.
C21_Witness ==
    /\ QuickDone
    /\ quickOut = "UpToDate"
    /\ files["@a"] # remoteFiles["@a"]

\* =================================================================
\* Properties of sync_with_context over damaged local files
\* (specification SpecDamaged)
\* =================================================================
\* C22: a mod whose quick_diff failed is treated as NeedsFull: its full
\* manifest is fetched and diff_mod runs on it; the failure does not end
\* sync_with_context with an error.
C22_QuickDiffFailureDegradesToFull ==
    \A m \in events.quickFailed :
        /\ m \in events.fullFetched
        /\ m \in events.diffed

\* =================================================================
\* Properties of diff_repo (specification SpecRepo)
\* =================================================================
\* The remote manifest's mods in order: required_mods, then optional_mods.
RepoChain == remote_repo.required_mods \o remote_repo.optional_mods

\* The positions of RepoChain whose digest is not a key of the cache.
RepoMissing == {i \in 1..Len(RepoChain) : \A e \in repoCache.mods : e.digest # RepoChain[i].checksum}

\* C23: a call of diff_repo returns exactly the mods of required_mods
\* followed by optional_mods whose digest is not a key of cache.mods, each
\* once per position and in the order of the remote manifest, and the cache
\* (and the manifest) after the call are those before it.
C23_DiffRepoListsUncachedInOrder ==
    [][repoPc' = "done" =>
          /\ Len(repoOut') = Cardinality(RepoMissing)
          /\ \A i \in RepoMissing :
                repoOut'[Cardinality({j \in RepoMissing : j <= i})] = RepoChain[i]
          /\ repoCache' = repoCache
          /\ remote_repo' = remote_repo]_vars

\* An optional mod that is not cached is returned after a required one, and
\* a cached mod between them is left out.
C23_Witness ==
    /\ repoPc = "done"
    /\ Len(repoOut) = 2
    /\ Len(RepoChain) > 2
    /\ repoOut[1] = remote_repo.required_mods[1]
    /\ repoOut[2] = remote_repo.optional_mods[Len(remote_repo.optional_mods)]
    /\ repoOut[1] # repoOut[2]

\* =================================================================
\* Forced sync (specification Spec)
\* =================================================================
\* The forced run is between its first step and the write of the cache.
ForcedRunUnderWay ==
    /\ force_sync
    /\ pc \in {"check1", "fetch_repo", "check2", "load_cache", "probe", "diff",
               "dry_check", "dl_check", "dl_body", "save_srf", "commit"}

\* The forced run has worked through required_mods and has not yet saved
\* the downloaded manifests.
ForcedLoopDone ==
    /\ force_sync
    /\ pc \in {"dry_check", "dl_check", "dl_body", "save_srf"}

\* C24 (as claimed): with force, nimble-cache.json is gone after the first
\* step; quick_diff is run for no mod; every required mod has its full
\* manifest fetched and diff_mod run; and each such mod's mod.srf is the scan
\* of its directory as the run found it.
C24_ForceDeletesCacheAndRescans ==
    /\ ForcedRunUnderWay => cacheFile = NoCache /\ events.upToDate = {}
    /\ ForcedLoopDone =>
          \A m \in ModNames :
              /\ m \in events.fullFetched /\ m \in events.diffed
              /\ srfFile[m] = scan_mod(m, pre.files[m])

\* C24 (amended): with force, the removal of nimble-cache.json is attempted
\* first, and the file is gone unless that removal failed, in which case it
\* is as before; quick_diff is run for no mod; every required mod has its
\* full manifest fetched and diff_mod run; each such mod's mod.srf is the
\* scan of its directory as the run found it, unless the removal of the old
\* mod.srf failed, in which case the old one is kept.
C24_ForceAttemptsRemovalsAndDiffsAll ==
    /\ ForcedRunUnderWay =>
          /\ cacheFile \in {NoCache, pre.cacheFile}
          /\ events.cacheDeleted => cacheFile = NoCache
          /\ events.upToDate = {}
    /\ ForcedLoopDone =>
          \A m \in ModNames :
              /\ m \in events.fullFetched /\ m \in events.diffed
              /\ srfFile[m] \in {scan_mod(m, pre.files[m]), pre.srfFile[m]}
              /\ pre.srfFile[m] = NoSrf => srfFile[m] = scan_mod(m, pre.files[m])

\* C24 witness: a forced run over a mod whose mod.srf had the remote digest
\* (and whose probe gave a partial manifest) but whose directory lacks a
\* listed file: the cache is deleted, the mod is diffed against the full
\* manifest with a rebuilt mod.srf, and the file is queued for download.
C24_Witness ==
    /\ ForcedLoopDone
    /\ pre.cacheFile # NoCache /\ cacheFile = NoCache
    /\ pre.srfFile["@a"] # NoSrf
    /\ pre.srfFile["@a"].checksum = RemoteSrf("@a").checksum
    /\ extract_checksum("@a").ok
    /\ srfFile["@a"] = scan_mod("@a", pre.files["@a"])
    /\ srfFile["@a"] # pre.srfFile["@a"]
    /\ \E p \in PathsOf("@a") : <<"@a", p>> \in events.downloadTasks

\* =================================================================
\* Properties of ModCache and nimble-cache.json (specification SpecCache)
\* =================================================================
\* The file exists but cannot be opened or decoded.
Undecodable(f) == f \in {UnreadableCache, CorruptCache}

\* C25: from_disk_or_empty returns the empty cache (no mods, no repository,
\* no last_sync) when nimble-cache.json does not exist, and an error when the
\* file exists but cannot be opened or decoded.
C25_AbsentIsEmptyDamagedIsError ==
    callOut.op = "from_disk_or_empty" =>
        /\ callOut.disk = NoCache =>
              /\ callOut.res.ok
              /\ callOut.res.cache.mods = {}
              /\ callOut.res.cache.repository = "none"
              /\ callOut.res.cache.last_sync = "none"
        /\ Undecodable(callOut.disk) => ~callOut.res.ok

\* from_disk_or_empty was called on a file that a failed save had left
\* truncated, and returned an error.
C25_Witness ==
    /\ callOut.op = "from_disk_or_empty"
    /\ callOut.disk = CorruptCache
    /\ pre.cacheFile \in DiskCaches
    /\ ~callOut.res.ok

\* C26: every load of the cache for use (sync's from_disk_or_empty, launch,
\* the GUI's profile selection) reports a nimble-cache.json that exists but
\* does not decode as an error; none goes on as with an empty cache.
C26_LoadersSurfaceDamagedCache ==
    (/\ callOut.op \in {"from_disk_or_empty", "launch", "set_selected_profile"}
     /\ Undecodable(callOut.disk))
        => ~callOut.res.ok

\* C27: to_disk replaces nimble-cache.json atomically: while a save is under
\* way, and after a save that failed, the file holds the complete cache it
\* held before the save.
C27_SaveNeverLeavesPartialFile ==
    (/\ callOut.op = "to_disk"
     /\ callOut.res \in {"pending", "Err"}
     /\ callOut.disk \in DiskCaches)
        => cacheFile = callOut.disk

\* C28: mods maps digest d to name n exactly when the last insert or remove
\* on d was an insert of a manifest named n; so a remove of an absent digest
\* changes nothing, and no call changes another digest's entry.
C28_ModsReflectLastCallPerDigest ==
    \A d \in 1..MaxDigest : \A n \in ModNames :
        ([digest |-> d, name |-> n] \in cacheObj.mods)
            <=> lastOp[d] = [op |-> "insert", name |-> n]

\* The last call removed a digest that has no entry since, while the entry
\* another digest got from an insert stays.
C28_Witness ==
    /\ callOut.op = "remove"
    /\ lastOp[callOut.digest].op = "remove"
    /\ \E d \in 1..MaxDigest :
          /\ d # callOut.digest
          /\ lastOp[d] = [op |-> "insert", name |-> "@b"]
          /\ [digest |-> d, name |-> "@b"] \in cacheObj.mods

\* =================================================================
\* Exit codes of the command-line program (specification SpecMain)
\* =================================================================
\* C29: the process ends with exit code 0 when the command succeeded, with
\* 2 when the sync was cancelled, and with 1 when it failed with any other
\* error.
C29_ExitCodeTellsOutcome ==
    mainPc = "exited" =>
        exit_code = CASE cmdResult = "Ok" -> 0
                      [] cmdResult = "Cancelled" -> 2
                      [] OTHER -> 1

\* =================================================================
\* Properties of the partial probe (specification SpecProbe)
\* =================================================================
\* C30: for every JSON manifest whose top-level Checksum field lies entirely
\* within the first 512 bytes of its encoding, the partial probe yields the
\* manifest's aggregate digest from the partial data, without a fetch of the
\* full manifest.
C30_ProbeYieldsAggregateDigest ==
    (/\ probePc = "done"
     /\ remote_manifest.encoding = "json"
     /\ ChecksumFieldEnd(remote_manifest) <= 512)
        => /\ probeOut.partial
           /\ probeOut.checksum = remote_manifest.checksum
           /\ ~probeOut.full_fetch

\* =================================================================
\* Properties of make_repo_file_url (specification SpecUrl)
\* =================================================================
\* The path with every backslash replaced by a forward slash.
BackslashesRewritten(p) == [k \in 1..Len(p) |-> IF p[k] = "\\" THEN "/" ELSE p[k]]

UrlDone == fnPc = "done" /\ fnArgs.fn = "make_repo_file_url"

\* C31: make_repo_file_url returns the base without its trailing slashes,
\* then exactly one '/', then the suffix path with every backslash replaced
\* by a forward slash.
C31_UrlIsTrimmedBaseSlashRewrittenPath ==
    UrlDone =>
        fnOut = trim_end_matches(fnArgs.base_url, "/") \o <<"/">>
                    \o BackslashesRewritten(fnArgs.file_path)

\* =================================================================
\* Properties of convert_host_base_path_to_proton_base_path
\* (specification SpecProton)
\* =================================================================
ProtonDone ==
    fnPc = "done" /\ fnArgs.fn = "convert_host_base_path_to_proton_base_path"

\* The positions of the components named drive_c.  The ancestors of a path
\* are those Path::ancestors yields, the path itself being the first.
DriveCAt(p) == {k \in 1..Len(p.components) : p.components[k] = "drive_c"}

\* C32: on a non-Windows host, a base path with an ancestor named drive_c is
\* converted to c:/ joined with the path relative to the nearest such
\* ancestor; without such an ancestor the result is FailedToFindDriveC.
C32_ProtonPathIsRelativeToNearestDriveC ==
    ProtonDone =>
        LET p == fnArgs.host_base_path IN
        IF DriveCAt(p) # {}
        THEN LET k == CHOOSE i \in DriveCAt(p) : \A j \in DriveCAt(p) : j <= i
             IN  fnOut = [ok |-> TRUE,
                          path |-> <<"c:/">> \o SubSeq(p.components, k + 1,
                                                       Len(p.components))]
        ELSE fnOut = [ok |-> FALSE, err |-> "FailedToFindDriveC"]

\* A path with two ancestors named drive_c and a non-empty rest was
\* converted.
C32_Witness ==
    /\ ProtonDone
    /\ Cardinality(DriveCAt(fnArgs.host_base_path)) = 2
    /\ fnOut.ok
    /\ Len(fnOut.path) = 2

\* =================================================================
\* Properties of the JSON form of Repository (specification SpecJson)
\* =================================================================
JsonDone == fnPc = "done" /\ fnArgs.fn = "to_string_pretty"

\* C33: a Repository serialized to JSON and deserialized again has the same
\* repo_name, version and client_parameters, the same required mods in the
\* same order, and the same servers with the same name and port.
C33_RepositoryRoundTrips ==
    JsonDone =>
        /\ fnOut.ok
        /\ fnOut.value.repo_name = fnArgs.repo.repo_name
        /\ fnOut.value.version = fnArgs.repo.version
        /\ fnOut.value.client_parameters = fnArgs.repo.client_parameters
        /\ fnOut.value.required_mods = fnArgs.repo.required_mods
        /\ Len(fnOut.value.servers) = Len(fnArgs.repo.servers)
        /\ \A k \in 1..Len(fnArgs.repo.servers) :
              /\ fnOut.value.servers[k].name = fnArgs.repo.servers[k].name
              /\ fnOut.value.servers[k].port = fnArgs.repo.servers[k].port

\* A repository of two different required mods and a server came back.
C33_Witness ==
    /\ JsonDone
    /\ Len(fnArgs.repo.required_mods) = 2
    /\ fnArgs.repo.required_mods[1] # fnArgs.repo.required_mods[2]
    /\ Len(fnArgs.repo.servers) = 1
    /\ fnArgs.repo.servers[1].port = 65535
    /\ fnOut.ok

\* C34: once the cancel flag is set during sync_with_context, no further mod
\* is diffed and no orphan file is deleted in that run.
C34_CancelStopsDiffsAndDeletions ==
    [][(pc # "idle" /\ cancel)
          => /\ events'.diffed = events.diffed
             /\ events'.deleted = events.deleted]_vars

\* The mods whose manifest save_srf_files is to write: those with downloads.
UpdatedMods == {downloaded_srfs[k].mod_name : k \in 1..Len(downloaded_srfs)}

\* C35: when a run has written nimble-cache.json, the mod.srf of every mod
\* updated in the run had been written before and none of those writes had
\* failed; the cache write is the last write of the run.
C35_CacheWrittenAfterAllSrfWrites ==
    events.cacheWritten =>
        /\ ~events.srfSaveFailed
        /\ events.srfSaved = UpdatedMods
        /\ \A m \in UpdatedMods : srfFile[m] = RemoteSrf(m)
        /\ pc = "idle"

\* A run wrote the manifests of both mods and then the cache.
C35_Witness ==
    /\ events.cacheWritten
    /\ events.srfSaved = ModNames

\* C36: in every sync run the orphan deletions all come before the first
\* file download: a step that deletes is a step of the per-mod loop, taken
\* when nothing has been downloaded yet, and a step that downloads is a step
\* of the download loop, after the per-mod loop.
C36_DeletionsBeforeDownloads ==
    [][pc # "idle"
          => /\ events'.deleted # events.deleted
                    => pc = "diff" /\ events.downloaded = {}
             /\ events'.downloaded # events.downloaded
                    => pc = "dl_body" /\ events'.deleted = events.deleted]_vars

\* A run deleted an orphan file of one mod and then downloaded a file.
C36_Witness ==
    /\ events.deleted # {}
    /\ events.downloaded # {}

\* The Delete tasks of the run whose file existed and whose removal failed.
DeleteFailed ==
    {t \in events.deleteTasks :
        pre.files[t[1]][t[2]] # NoFile /\ t \notin events.deleted}

\* C37: a step of the per-mod loop in which the removal of an orphan file
\* fails returns no error and goes on to the next mod; the orphans whose
\* removal did not fail are gone, and the downloads the diff asked for are
\* all queued.
C37_DeleteFailureStopsNothing ==
    [][(pc = "diff" /\ DeleteFailed' # DeleteFailed)
          => /\ result' = "none" /\ pc' = "diff" /\ idx' = idx + 1
             /\ \A t \in events'.deleted \ events.deleted : files'[t[1]][t[2]] = NoFile
             /\ {<<download_commands'[k].mod, download_commands'[k].path>> :
                    k \in 1..Len(download_commands')} = events'.downloadTasks]_vars

\* The removal of one orphan failed, another orphan was deleted, a file was
\* downloaded and the run returned Ok.
C37_Witness ==
    /\ DeleteFailed # {}
    /\ events.deleted # {}
    /\ events.downloaded # {}
    /\ result = "Ok"

\* =================================================================
\* Properties of the paths a sync writes to (specification SpecPaths)
\* =================================================================
\* The file lies beneath the directory.
Beneath(file, dir) ==
    Len(file) > Len(dir) /\ SubSeq(file, 1, Len(dir)) = dir

\* C38: every file a sync creates, overwrites or deletes for a mod lies
\* beneath <base>/<mod_name>/, whatever the paths of the manifest, paths
\* with ".." components and absolute paths included.
C38_WritesStayBeneathModDirectory ==
    (fnPc = "done" /\ fnArgs.fn = "write_file")
        => Beneath(fnOut.at, base_path.components \o <<fnArgs.mod_name>>)

\* =================================================================
\* Properties of the GUI (specification SpecGui)
\* =================================================================

\* C39: the GUI never runs two sync threads at the same time: once Sync Mods
\* was clicked, no second sync thread is spawned before the first one has
\* sent its terminal message.
C39_NoTwoSyncThreads == Cardinality(RunningSyncs) <= 1

\* The message the claim expects of a thread whose sync returned r.
ExpectedTerminal(r) ==
    IF r = "Ok" THEN "SyncComplete"
    ELSE IF r = "Cancelled" THEN "SyncCancelled" ELSE "SyncError"

\* A step receives the terminal message of a sync thread.
ReceivesTerminal ==
    /\ channel # <<>>
    /\ Head(channel).thread # 0
    /\ Head(channel).kind \in TerminalMessages
    /\ channel' = Tail(channel)

\* C40: every sync thread sends exactly one terminal message, the one that
\* tells what sync returned (SyncComplete for Ok, SyncCancelled for Cancelled,
\* SyncError otherwise), and it is the last message the thread sends; the
\* step that receives it leaves GuiState Idle.
C40_OneTerminalMessageSentLast ==
    [][/\ \A t \in 1..MaxSyncThreads :
            LET th == syncThreads'[t]
                terminals == {i \in 1..Len(th.sent) : th.sent[i] \in TerminalMessages}
            IN  /\ terminals = IF th.pc = "done" THEN {Len(th.sent)} ELSE {}
                /\ th.pc = "done" => th.sent[Len(th.sent)] = ExpectedTerminal(th.result)
       /\ ReceivesTerminal => gui_state' = "Idle"]_vars

\* A sync thread was cancelled after it had sent progress, and all it sent
\* has been received.
C40_Witness ==
    \E t \in 1..MaxSyncThreads :
        /\ syncThreads[t].pc = "done"
        /\ syncThreads[t].result = "Cancelled"
        /\ Len(syncThreads[t].sent) >= 3
        /\ \A i \in 1..Len(channel) : channel[i].thread # t
        /\ gui_state = "Idle"

====
